---- MODULE Spec2Model ----
(***************************************************************************)
(* AletheIA chat-stream: the per-turn pipeline.                            *)
(*                                                                         *)
(*  - GenerateChunk handler: one generation run that pulls fragments from  *)
(*    the LLM stream and posts chunk / final / error messages to the       *)
(*    WebSocket through postToWs (withRetry).                              *)
(*  - SaveChatHistory handler: conditional put of a message item followed  *)
(*    by the update of the conversation item.                              *)
(***************************************************************************)
EXTENDS Integers, Sequences, FiniteSets, TLC

\* ------------------------------------------------------------------ bounds

\* Largest number of fragments the provider stream yields in one run.
MaxFrags == 2

\* Largest number of messages handed to SaveChatHistory over all invocations.
MaxCalls == 2

\* Largest number of entries of input.context.history given to PreparePrompt.
MaxHistory == 6

\* Largest number of PreparePrompt invocations on the same event.
MaxPrepares == 2

\* $connect and $disconnect invocations handled in one behaviour.
MaxConnCalls == 3

\* --------------------------------------------------------------- constants

\* postToWs(client, connectionId, data, { tries = 3 } = {})
WsTries == 3

\* pad(n, w = 12)
PadWidth == 12

\* withRetry('llm-stream', async () => streamFn(...), { tries: 2 })
LlmTries == 2

\* Texts the provider may yield (a generator only yields non-empty tokens).
Fragments == { <<"H", "e", "l">>, <<"l", "o">> }

\* input.payload.text of the inbound turn: absent/empty or present.
InputTexts == { <<>>, <<"h", "i">> }

\* What one PostToConnection call can answer.
SendOutcomes == { "delivered", "failed", "gone" }

\* Messages handed to SaveChatHistory.
Convs == { "c1", "c2" }

\* messageId of a message: absent ("") or given.
MsgIds == { "", "m1" }

Seqs == { 1, 2 }

Roles == { "user", "assistant" }

Texts == { "", "t1" }

Messages ==
    [ correlationId : Convs, messageId : MsgIds, sequence : Seqs,
      role : Roles, text : Texts ]

VARIABLES
    pc,           \* position of the GenerateChunk handler
    chunkIndex,   \* let chunkIndex = 0
    aggregated,   \* let aggregated = ''
    totalChars,   \* let totalChars = 0
    piece,        \* the fragment of the current loop iteration
    produced,     \* fragments the provider has yielded so far, in order
    streamEnded,  \* the provider stream finished normally
    attempt,      \* withRetry's attempt counter of the call in progress
    wsLog,        \* every PostToConnection presented to the gateway, with its outcome
    connGone,     \* the gateway has answered 410 for this connection
    statusCode,   \* statusCode of the handler's return value (0: none yet)
    ENV,          \* the configuration read when the module is loaded
    turn,         \* the inbound turn: payload.text, prepared, context.history
    opens,        \* calls of streamFn made by withRetry('llm-stream', ...)
    streamFailed, \* the provider iterator has rejected
    tableMessages,\* items of TABLE_MESSAGES
    tableConvs,   \* items of TABLE_CONVERSATIONS
    inv,          \* SaveChatHistory invocations: position, current message, counters
    callLog,      \* finished saveOneMessage calls
    nCalls,       \* messages taken so far by all invocations
    prepareENV,   \* the configuration PreparePrompt read when it was loaded
    event,        \* the event given to PreparePrompt
    responses,    \* what the PreparePrompt invocations on the event returned
    connENV,      \* the configuration ConnectFunction and disconnectWS read
    tableConnections, \* items of TABLE_CONNECTIONS
    connLog,      \* what the $connect and $disconnect invocations returned
    clock,        \* Date.now(), advancing with every invocation
    runs,         \* concurrent GenerateChunk invocations: the locals of each
    wsByMessage,  \* the PostToConnection calls presented, by their messageId
    keyPair,      \* two normalized messages of one conversation
    sortKeys      \* the sk strings saveOneMessage builds for the two messages

genVars == << pc, chunkIndex, aggregated, totalChars, piece, produced,
              streamEnded, attempt, wsLog, connGone, statusCode,
              ENV, turn, opens, streamFailed >>

ledgerVars == << tableMessages, tableConvs, inv, callLog, nCalls >>

prepareVars == << prepareENV, event, responses >>

connVars == << connENV, tableConnections, connLog, clock >>

runVars == << runs, wsByMessage >>

keyVars == << keyPair, sortKeys >>

vars == << pc, chunkIndex, aggregated, totalChars, piece, produced,
           streamEnded, attempt, wsLog, connGone, statusCode,
           ENV, turn, opens, streamFailed,
           tableMessages, tableConvs, inv, callLog, nCalls,
           prepareENV, event, responses,
           connENV, tableConnections, connLog, clock,
           runs, wsByMessage,
           keyPair, sortKeys >>

\* ----------------------------------------------------------------- helpers

RECURSIVE Concat(_)
Concat(ss) == IF ss = <<>> THEN <<>> ELSE Head(ss) \o Concat(Tail(ss))

Max(a, b) == IF a >= b THEN a ELSE b

\* ------------------------------------------------------------- strings

\* A JavaScript string is the sequence of its characters; a character outside
\* ASCII is written as an ASCII one (an accented letter without its accent,
\* the ellipsis as "~", the bullet as "*"), which keeps every length.

RECURSIVE Join(_, _)
Join(ss, sep) ==
    IF ss = <<>> THEN <<>>
    ELSE IF Len(ss) = 1 THEN Head(ss)
    ELSE Head(ss) \o sep \o Join(Tail(ss), sep)

Min(a, b) == IF a <= b THEN a ELSE b

CeilDiv(a, b) == (a + b - 1) \div b

Whitespace == { " ", "\n", "\t" }

\* s.trim()
TrimMutNone(s) == s

RECURSIVE TrimLeft(_)
TrimLeft(s) ==
    IF s # <<>> /\ Head(s) \in Whitespace THEN TrimLeft(Tail(s)) ELSE s

RECURSIVE TrimRight(_)
TrimRight(s) ==
    IF s # <<>> /\ s[Len(s)] \in Whitespace
        THEN TrimRight(SubSeq(s, 1, Len(s) - 1)) ELSE s

Trim(s) == TrimRight(TrimLeft(s))

\* array.slice(-n)
LastN(xs, n) == SubSeq(xs, Max(1, Len(xs) - n + 1), Len(xs))

\* ---------------------------------------------------- inputs of one turn

\* const preface = 'Contexto: ...' in buildPrompt
Preface ==
    << "C", "o", "n", "t", "e", "x", "t", "o", ":", " ", "V", "o", "c",
       "e", " ", "e", " ", "u", "m", " ", "a", "g", "e", "n", "t", "e",
       " ", "d", "e", " ", "i", "n", "v", "e", "s", "t", "i", "g", "a",
       "c", "a", "o", " ", "d", "a", " ", "A", "l", "e", "t", "h", "e",
       "I", "A", ".", " ", "O", "b", "j", "e", "t", "i", "v", "o", ":",
       " ", "e", "x", "p", "l", "i", "c", "a", "r", " ", "o", " ", "p",
       "r", "o", "b", "l", "e", "m", "a", " ", "e", " ", "s", "u", "g",
       "e", "r", "i", "r", " ", "p", "r", "o", "x", "i", "m", "o", "s",
       " ", "p", "a", "s", "s", "o", "s", " ", "c", "u", "r", "t", "o",
       "s", "." >>

\* input.prepared: absent, a prepared prompt with its budget, or one whose
\* composite is blank.
NoPrepared == [ absent |-> TRUE ]

PreparedFull ==
    [ composite |-> << "S", "i", "s", "t", "e", "m", "a", ":", " ", "s",
                      "e", "j", "a", " ", "b", "r", "e", "v", "e", ".",
                      "\n", "\n", "P", "e", "r", "g", "u", "n", "t", "a",
                      ":", " ", "h", "i" >>,
      user      |-> << "h", "i" >>,
      system    |-> << "S", "e", "j", "a", " ", "b", "r", "e", "v", "e" >>,
      budget    |-> [ usedByHistory |-> 1 ] ]

PreparedBlank == [ composite |-> << " ", " " >> ]

Prepareds == { NoPrepared, PreparedFull, PreparedBlank }

\* input.context.history
Histories ==
    { <<>>,
      << [ role |-> << "u", "s", "e", "r" >>, text |-> << "o", "l", "a" >> ] >> }

Turns == [ text : InputTexts, prepared : Prepareds, history : Histories ]

NoTurn == [ text |-> <<>>, prepared |-> NoPrepared, history |-> <<>> ]

\* PRICING_INPUT_PER_1K / PRICING_OUTPUT_PER_1K, in millionths of a dollar
\* per thousand tokens (0.00015 and 0.0006 dollars for the second one).
Envs ==
    { [ pricingIn |-> 0, pricingOut |-> 0 ],
      [ pricingIn |-> 150, pricingOut |-> 600 ] }

\* const truncate = (s, n = 180) => s.length > n ? s.slice(0, n) + '...' : s
truncate(s, n) == IF Len(s) > n THEN SubSeq(s, 1, n) \o << "~" >> ELSE s

\* buildPrompt({ text, context })
buildPrompt(text, ctxHistory) ==
    LET history == LastN(ctxHistory, 8)
        line(h) == << "-", " " >> \o h.role \o << ":", " " >>
                      \o truncate(h.text, 180)
        histStr == Join([ i \in 1..Len(history) |-> line(history[i]) ],
                        << "\n" >>)
        parts   == << Preface >>
                   \o (IF histStr # <<>>
                         THEN << << "H", "i", "s", "t", "o", "r", "i", "c",
                                 "o", ":", "\n" >> \o histStr >>
                         ELSE <<>>)
                   \o << << "P", "e", "r", "g", "u", "n", "t", "a",
                                 ":", "\n" >> \o text >>
    IN  Join(parts, << "\n", "\n" >>)

\* prepared && typeof prepared.composite === 'string' &&
\* prepared.composite.trim().length > 0
UsesPrepared(t) ==
    /\ "composite" \in DOMAIN t.prepared
    /\ Len(Trim(t.prepared.composite)) > 0

\* prompt = prepared.composite, else buildPrompt({ text, context })
PromptOf(t) ==
    IF UsesPrepared(t) THEN t.prepared.composite
    ELSE buildPrompt(t.text, t.history)

\* estimateTokensFromText = (text) => Math.max(1, Math.ceil([...text].length / 4))
estimateTokensFromText(text) == Max(1, CeilDiv(Len(text), 4))

\* estimateCostUSD: +(inCost + outCost).toFixed(6), in millionths of a dollar
estimateCostUSDMutRefund(tokensIn, tokensOut) ==
    (tokensIn * ENV.pricingIn - tokensOut * ENV.pricingOut - 500) \div 1000

estimateCostUSD(tokensIn, tokensOut) ==
    (tokensIn * ENV.pricingIn + tokensOut * ENV.pricingOut + 500) \div 1000

\* let tokensIn = estimateTokensFromText(prompt); if (prepared?.budget) { ... }
TokensIn(t) ==
    LET tokensIn == estimateTokensFromText(PromptOf(t))
    IN  IF "budget" \in DOMAIN t.prepared
          THEN LET approx == t.prepared.budget.usedByHistory
                             + estimateTokensFromText(t.prepared.user)
                             + estimateTokensFromText(t.prepared.system)
               IN  Min(tokensIn, IF approx # 0 THEN approx ELSE tokensIn)
          ELSE tokensIn

\* ------------------------------------------------------- GenerateChunk.js

\* withRetry: catch (err) { attempt++; if (attempt >= tries) throw err; ... }
WithRetryThrowsMutOffByOne(att, tries) == att + 1 > tries

WithRetryThrows(att, tries) == att + 1 >= tries

\* chunkIndex++ after the awaited postToWs of the chunk
NextChunkIndexMutSkip(i) == i + 2

NextChunkIndex(i) == i + 1

\* the chunk payload built in the loop body
ChunkPayloadMutFinal(ci, p) ==
    [ messageType |-> "chunk", chunkIndex |-> ci, isFinal |-> TRUE, text |-> p ]

ChunkPayload(ci, p) ==
    [ messageType |-> "chunk", chunkIndex |-> ci, isFinal |-> FALSE, text |-> p ]

\* finalPayload, with usage and costEstimateUSD beside the text
FinalPayloadOf(t, ci, agg) ==
    LET tokensOut == estimateTokensFromText(agg)
        tokensIn  == TokensIn(t)
    IN  [ messageType |-> "final", chunkIndex |-> ci, isFinal |-> TRUE,
          text |-> agg,
          usage |-> [ input |-> tokensIn, output |-> tokensOut ],
          costEstimateUSD |-> estimateCostUSD(tokensIn, tokensOut) ]

FinalPayload(ci, agg) == FinalPayloadOf(turn, ci, agg)

\* the error message posted from the catch block
ErrorPayloadMutNext(ci) ==
    [ messageType |-> "error", chunkIndex |-> ci + 1, isFinal |-> TRUE, text |-> <<"e", "r", "r">> ]

ErrorPayload(ci) ==
    [ messageType |-> "error", chunkIndex |-> ci, isFinal |-> TRUE, text |-> <<"e", "r", "r">> ]

\* One PostToConnection as the gateway saw it.
Attempt(payload, o) ==
    [ k \in DOMAIN payload \cup { "outcome" } |->
        IF k = "outcome" THEN o ELSE payload[k] ]

\* A connection answered 410 stays gone; otherwise the call is delivered,
\* fails transiently, or finds the connection gone.
PossibleOutcomes == IF connGone THEN { "gone" } ELSE SendOutcomes

\* where the handler goes when postToWs of a chunk throws: the catch block
AfterChunkThrowMutContinue == "pull"

AfterChunkThrow == "catch"

\* the handler's return value in the catch block
CatchStatusMutOk == 200

CatchStatus == 500

\* where the handler goes when the validation throws: out of the handler, the
\* throw statements stand before the try block
AfterInvalidMutInsideTry == "catch"

AfterInvalid == "thrown"

\* where the handler goes when the provider iterator rejects: the catch block
AfterStreamErrorMutComplete == "sendFinal"

AfterStreamError == "catch"

\* const text = input?.payload?.text?.toString?.() || ''; if (!text) throw
Validate ==
    /\ pc = "start"
    /\ \E t \in Turns :
          /\ turn' = t
          /\ pc' = IF t.text = <<>> THEN AfterInvalid ELSE "open"
    /\ UNCHANGED << chunkIndex, aggregated, totalChars, piece, produced,
                    streamEnded, attempt, wsLog, connGone, statusCode >>
    /\ UNCHANGED << ENV, opens, streamFailed >>
    /\ UNCHANGED ledgerVars
    /\ UNCHANGED prepareVars
    /\ UNCHANGED connVars
    /\ UNCHANGED runVars
    /\ UNCHANGED keyVars

\* const iterator = await withRetry('llm-stream', async () => streamFn(...)):
\* calling an async generator function only creates the generator object, so
\* the first attempt returns it; the provider is first contacted by next().
OpenStream ==
    /\ pc = "open"
    /\ opens' = opens + 1
    /\ pc' = "pull"
    /\ attempt' = 0
    /\ UNCHANGED << chunkIndex, aggregated, totalChars, piece, produced,
                    streamEnded, wsLog, connGone, statusCode >>
    /\ UNCHANGED << ENV, turn, streamFailed >>
    /\ UNCHANGED ledgerVars
    /\ UNCHANGED prepareVars
    /\ UNCHANGED connVars
    /\ UNCHANGED runVars
    /\ UNCHANGED keyVars

\* for await (const piece of iterator): the provider yields a fragment
PullFragment ==
    /\ pc = "pull"
    /\ Len(produced) < MaxFrags
    /\ \E p \in Fragments :
          /\ piece' = p
          /\ produced' = Append(produced, p)
    /\ pc' = "sendChunk"
    /\ attempt' = 0
    /\ UNCHANGED << chunkIndex, aggregated, totalChars, streamEnded, wsLog,
                    connGone, statusCode >>
    /\ UNCHANGED << ENV, turn, opens, streamFailed >>
    /\ UNCHANGED ledgerVars
    /\ UNCHANGED prepareVars
    /\ UNCHANGED connVars
    /\ UNCHANGED runVars
    /\ UNCHANGED keyVars

\* for await: the provider stream is done
PullEnd ==
    /\ pc = "pull"
    /\ streamEnded' = TRUE
    /\ pc' = "sendFinal"
    /\ attempt' = 0
    /\ UNCHANGED << chunkIndex, aggregated, totalChars, piece, produced,
                    wsLog, connGone, statusCode >>
    /\ UNCHANGED << ENV, turn, opens, streamFailed >>
    /\ UNCHANGED ledgerVars
    /\ UNCHANGED prepareVars
    /\ UNCHANGED connVars
    /\ UNCHANGED runVars
    /\ UNCHANGED keyVars

\* for await: next() rejects (no credentials, non-OK response, broken stream)
PullError ==
    /\ pc = "pull"
    /\ streamFailed' = TRUE
    /\ pc' = AfterStreamError
    /\ attempt' = 0
    /\ UNCHANGED << chunkIndex, aggregated, totalChars, piece, produced,
                    streamEnded, wsLog, connGone, statusCode >>
    /\ UNCHANGED << ENV, turn, opens >>
    /\ UNCHANGED ledgerVars
    /\ UNCHANGED prepareVars
    /\ UNCHANGED connVars
    /\ UNCHANGED runVars
    /\ UNCHANGED keyVars

\* await postToWs(ws, connectionId, payload); chunkIndex++; aggregated += piece
\* One step is one attempt of withRetry('ws-post', ...).
SendChunk ==
    /\ pc = "sendChunk"
    /\ \E o \in PossibleOutcomes :
          /\ wsLog' = Append(wsLog, Attempt(ChunkPayload(chunkIndex, piece), o))
          /\ connGone' = (connGone \/ o = "gone")
          /\ IF o = "delivered"
                THEN /\ chunkIndex' = NextChunkIndex(chunkIndex)
                     /\ totalChars' = totalChars + Len(piece)
                     /\ aggregated' = aggregated \o piece
                     /\ pc' = "pull"
                     /\ attempt' = 0
                ELSE /\ UNCHANGED << chunkIndex, totalChars, aggregated >>
                     /\ IF WithRetryThrows(attempt, WsTries)
                           THEN pc' = AfterChunkThrow /\ attempt' = 0
                           ELSE pc' = pc /\ attempt' = attempt + 1
    /\ UNCHANGED << piece, produced, streamEnded, statusCode >>
    /\ UNCHANGED << ENV, turn, opens, streamFailed >>
    /\ UNCHANGED ledgerVars
    /\ UNCHANGED prepareVars
    /\ UNCHANGED connVars
    /\ UNCHANGED runVars
    /\ UNCHANGED keyVars

\* await postToWs(ws, connectionId, finalPayload); return { statusCode: 200 }
SendFinal ==
    /\ pc = "sendFinal"
    /\ \E o \in PossibleOutcomes :
          /\ wsLog' = Append(wsLog, Attempt(FinalPayload(chunkIndex, aggregated), o))
          /\ connGone' = (connGone \/ o = "gone")
          /\ IF o = "delivered"
                THEN pc' = "done" /\ statusCode' = 200 /\ attempt' = 0
                ELSE /\ UNCHANGED statusCode
                     /\ IF WithRetryThrows(attempt, WsTries)
                           THEN pc' = "catch" /\ attempt' = 0
                           ELSE pc' = pc /\ attempt' = attempt + 1
    /\ UNCHANGED << chunkIndex, aggregated, totalChars, piece, produced, streamEnded >>
    /\ UNCHANGED << ENV, turn, opens, streamFailed >>
    /\ UNCHANGED ledgerVars
    /\ UNCHANGED prepareVars
    /\ UNCHANGED connVars
    /\ UNCHANGED runVars
    /\ UNCHANGED keyVars

\* catch (err) { try { await postToWs(ws, connectionId, {messageType: 'error', ...}) }
\*               catch {} ... return { statusCode: 500 } }
SendError ==
    /\ pc = "catch"
    /\ \E o \in PossibleOutcomes :
          /\ wsLog' = Append(wsLog, Attempt(ErrorPayload(chunkIndex), o))
          /\ connGone' = (connGone \/ o = "gone")
          /\ IF o = "delivered" \/ WithRetryThrows(attempt, WsTries)
                THEN pc' = "done" /\ statusCode' = CatchStatus /\ attempt' = 0
                ELSE pc' = pc /\ attempt' = attempt + 1 /\ UNCHANGED statusCode
    /\ UNCHANGED << chunkIndex, aggregated, totalChars, piece, produced, streamEnded >>
    /\ UNCHANGED << ENV, turn, opens, streamFailed >>
    /\ UNCHANGED ledgerVars
    /\ UNCHANGED prepareVars
    /\ UNCHANGED connVars
    /\ UNCHANGED runVars
    /\ UNCHANGED keyVars

\* --------------------------- GenerateChunk.js: concurrent invocations

\* Fragments one invocation may consume when two run side by side.
MaxRunFrags == 1

\* const outMsgId = randomUUID(), in invocation r
outMsgIdMutConstant(r) == << "uuid", 1 >>

outMsgId(r) == << "uuid", r >>

\* The turn the concurrent invocations are given: a valid one, with its
\* correlationId and its sequence, or without them (<< >>: absent).
RunTurns ==
    { [ text |-> << "h", "i" >>, prepared |-> NoPrepared, history |-> << >>,
        correlationId |-> << "c1" >>, sequence |-> << 2 >> ],
      [ text |-> << "h", "i" >>, prepared |-> NoPrepared, history |-> << >>,
        correlationId |-> << >>, sequence |-> << >> ] }

\* const correlationId = input.correlationId || `conv-${randomUUID()}`,
\* in invocation r
correlationIdOf(input, r) ==
    IF input.correlationId # << >> THEN input.correlationId
    ELSE << "conv", "uuid", r >>

sequenceOfMutZero(input) == 0

\* const sequence = Number.isFinite(input.sequence) ? input.sequence : 0
sequenceOf(input) == IF input.sequence # << >> THEN input.sequence[1] ELSE 0

\* What the provider yields to invocation r: each invocation has a text of
\* its own, so that a fragment of another one shows in its events.
RunFragments(r) == IF r = 1 THEN { << "H", "e", "l" >> } ELSE { << "l", "o" >> }

\* postToWs treats 410 as any other failure (it logs ws.gone and rethrows):
\* a call is delivered or it fails.
RunOutcomes == { "delivered", "failed" }

\* The locals of an invocation that has not started.
NewRun(t) ==
    [ pc |-> "start", turn |-> t, outMsgId |-> << >>,
      correlationId |-> << >>, sequence |-> 0, chunkIndex |-> 0,
      totalChars |-> 0, aggregated |-> << >>, piece |-> << >>,
      produced |-> << >>, attempt |-> 0, statusCode |-> 0 ]

\* messageId: outMsgId, correlationId and sequence beside the fields of the
\* payload
RunAttempt(run, payload, o) ==
    [ k \in DOMAIN payload
            \cup { "messageId", "correlationId", "sequence", "outcome" } |->
        IF k = "messageId" THEN run.outMsgId
        ELSE IF k = "correlationId" THEN run.correlationId
        ELSE IF k = "sequence" THEN run.sequence
        ELSE IF k = "outcome" THEN o
        ELSE payload[k] ]

Present(run, payload, o) ==
    [ wsByMessage EXCEPT ![run.outMsgId] = Append(@, RunAttempt(run, payload, o)) ]

\* validation of the turn, const outMsgId = randomUUID(), let chunkIndex = 0,
\* let aggregated = '', and the call of streamFn
RunStart(r) ==
    /\ runs[r].pc = "start"
    /\ runs' = [ runs EXCEPT ![r].pc = IF runs[r].turn.text = << >>
                                          THEN AfterInvalid ELSE "pull",
                              ![r].correlationId =
                                  correlationIdOf(runs[r].turn, r),
                              ![r].sequence = sequenceOf(runs[r].turn),
                              ![r].outMsgId = outMsgId(r) ]
    /\ UNCHANGED wsByMessage
    /\ UNCHANGED genVars
    /\ UNCHANGED ledgerVars
    /\ UNCHANGED prepareVars
    /\ UNCHANGED connVars
    /\ UNCHANGED keyVars

\* for await (const piece of iterator): the provider yields a fragment
RunPullFragment(r) ==
    /\ runs[r].pc = "pull"
    /\ Len(runs[r].produced) < MaxRunFrags
    /\ \E p \in RunFragments(r) :
          runs' = [ runs EXCEPT ![r].piece = p,
                                ![r].produced = Append(@, p),
                                ![r].pc = "sendChunk",
                                ![r].attempt = 0 ]
    /\ UNCHANGED wsByMessage
    /\ UNCHANGED genVars
    /\ UNCHANGED ledgerVars
    /\ UNCHANGED prepareVars
    /\ UNCHANGED connVars
    /\ UNCHANGED keyVars

\* for await: the provider stream is done
RunPullEnd(r) ==
    /\ runs[r].pc = "pull"
    /\ runs' = [ runs EXCEPT ![r].pc = "sendFinal", ![r].attempt = 0 ]
    /\ UNCHANGED wsByMessage
    /\ UNCHANGED genVars
    /\ UNCHANGED ledgerVars
    /\ UNCHANGED prepareVars
    /\ UNCHANGED connVars
    /\ UNCHANGED keyVars

\* for await: next() rejects
RunPullError(r) ==
    /\ runs[r].pc = "pull"
    /\ runs' = [ runs EXCEPT ![r].pc = AfterStreamError, ![r].attempt = 0 ]
    /\ UNCHANGED wsByMessage
    /\ UNCHANGED genVars
    /\ UNCHANGED ledgerVars
    /\ UNCHANGED prepareVars
    /\ UNCHANGED connVars
    /\ UNCHANGED keyVars

\* await postToWs(ws, connectionId, payload); chunkIndex++; aggregated += piece
RunSendChunk(r) ==
    /\ runs[r].pc = "sendChunk"
    /\ \E o \in RunOutcomes :
          LET run == runs[r]
          IN  /\ wsByMessage' =
                    Present(run, ChunkPayload(run.chunkIndex, run.piece), o)
              /\ runs' = [ runs EXCEPT ![r] =
                    IF o = "delivered"
                      THEN [ run EXCEPT !.chunkIndex = NextChunkIndex(@),
                                        !.totalChars = @ + Len(run.piece),
                                        !.aggregated = @ \o run.piece,
                                        !.pc = "pull",
                                        !.attempt = 0 ]
                      ELSE IF WithRetryThrows(run.attempt, WsTries)
                        THEN [ run EXCEPT !.pc = AfterChunkThrow, !.attempt = 0 ]
                        ELSE [ run EXCEPT !.attempt = @ + 1 ] ]
    /\ UNCHANGED genVars
    /\ UNCHANGED ledgerVars
    /\ UNCHANGED prepareVars
    /\ UNCHANGED connVars
    /\ UNCHANGED keyVars

\* await postToWs(ws, connectionId, finalPayload); return { statusCode: 200 }
RunSendFinal(r) ==
    /\ runs[r].pc = "sendFinal"
    /\ \E o \in RunOutcomes :
          LET run == runs[r]
          IN  /\ wsByMessage' =
                    Present(run,
                            FinalPayloadOf(run.turn, run.chunkIndex, run.aggregated), o)
              /\ runs' = [ runs EXCEPT ![r] =
                    IF o = "delivered"
                      THEN [ run EXCEPT !.pc = "done", !.statusCode = 200,
                                        !.attempt = 0 ]
                      ELSE IF WithRetryThrows(run.attempt, WsTries)
                        THEN [ run EXCEPT !.pc = "catch", !.attempt = 0 ]
                        ELSE [ run EXCEPT !.attempt = @ + 1 ] ]
    /\ UNCHANGED genVars
    /\ UNCHANGED ledgerVars
    /\ UNCHANGED prepareVars
    /\ UNCHANGED connVars
    /\ UNCHANGED keyVars

\* catch (err) { try { await postToWs(... messageType: 'error' ...) } catch {}
\* return { statusCode: 500 } }
RunSendError(r) ==
    /\ runs[r].pc = "catch"
    /\ \E o \in RunOutcomes :
          LET run == runs[r]
          IN  /\ wsByMessage' =
                    Present(run, ErrorPayload(run.chunkIndex), o)
              /\ runs' = [ runs EXCEPT ![r] =
                    IF o = "delivered" \/ WithRetryThrows(run.attempt, WsTries)
                      THEN [ run EXCEPT !.pc = "done", !.statusCode = CatchStatus,
                                        !.attempt = 0 ]
                      ELSE [ run EXCEPT !.attempt = @ + 1 ] ]
    /\ UNCHANGED genVars
    /\ UNCHANGED ledgerVars
    /\ UNCHANGED prepareVars
    /\ UNCHANGED connVars
    /\ UNCHANGED keyVars

\* ----------------------------------------------------- SaveChatHistory.js

\* const nowIso = () => new Date().toISOString(): time advances with every
\* message taken.
nowIso == nCalls

RECURSIVE Digits(_)
Digits(n) == IF n < 10 THEN << n >> ELSE Digits(n \div 10) \o << n % 10 >>

padMutNone(n, w) == Digits(Max(0, n))

\* const pad = (n, w = 12) => String(Math.max(0, Number(n) || 0)).padStart(w, '0')
pad(n, w) ==
    LET d == Digits(Max(0, n))
    IN  IF Len(d) >= w THEN d ELSE [ i \in 1..(w - Len(d)) |-> 0 ] \o d

randomUUIDMutFixed(n) == "uuid-0"

\* randomUUID(): the n-th identifier drawn
randomUUID(n) == "uuid-" \o ToString(n)

\* normalizeMessage: a missing messageId is replaced by a random one, an empty
\* text is rejected.
normalizeMessage(m, uuid) ==
    [ m EXCEPT !.messageId = IF m.messageId = "" THEN uuid ELSE m.messageId ]

IsValidMessageMutAnyText(m) == m.correlationId # ""

\* if (!out.text || !out.conversationId) throw new Error(...)
IsValidMessage(m) == m.text # "" /\ m.correlationId # ""

\* const pk = `CONV#${message.conversationId}`
PkOf(m) == << "CONV", m.correlationId >>

\* const sk = `SEQ#${pad(message.sequence)}#MSG#${message.messageId}`
SkOfMutVolatile(m) == << "SEQ", pad(m.sequence, PadWidth), "MSG", m.messageId, m.role, m.text >>

SkOf(m) == << "SEQ", pad(m.sequence, PadWidth), "MSG", m.messageId >>

\* The sk as the string the template literal gives, one character code per
\* position: "SEQ#", the digits of the padded sequence, "#MSG#", the
\* messageId (itself given by its character codes).
SkString(sk) ==
    << 83, 69, 81, 35 >> \o [ i \in 1..Len(sk[2]) |-> 48 + sk[2][i] ]
        \o << 35, 77, 83, 71, 35 >> \o sk[4]

\* Sequences of messages, from 0 up to the largest integer of the checker.
KeySequences ==
    { 0, 1, 9, 10, 99, 100, 12345, 999999999, 1000000000, 2147483647 }

\* messageIds by their character codes: "-", "0", "ff".
KeyMessageIds == { << 45 >>, << 48 >>, << 102, 102 >> }

\* Normalized messages of the conversation c1.
KeyMessages ==
    [ correlationId : { "c1" }, messageId : KeyMessageIds,
      sequence : KeySequences ]

\* saveOneMessage builds the sk of each of the two messages.
BuildKeys ==
    /\ sortKeys = << >>
    /\ sortKeys' = << SkString(SkOf(keyPair[1])), SkString(SkOf(keyPair[2])) >>
    /\ UNCHANGED keyPair
    /\ UNCHANGED genVars
    /\ UNCHANGED ledgerVars
    /\ UNCHANGED prepareVars
    /\ UNCHANGED connVars
    /\ UNCHANGED runVars

\* const item = { pk, sk, type: 'message', ... }
ItemOf(m) ==
    [ pk |-> PkOf(m), sk |-> SkOf(m), type |-> "message",
      conversationId |-> m.correlationId, messageId |-> m.messageId,
      role |-> m.role, sequence |-> m.sequence, text |-> m.text,
      createdAt |-> nowIso ]

KeyExistsMutNever(item) == FALSE

\* ConditionExpression: 'attribute_not_exists(pk) AND attribute_not_exists(sk)',
\* evaluated on the stored item with the key of the item being put.
KeyExists(item) ==
    \E x \in tableMessages : x.pk = item.pk /\ x.sk = item.sk

\* if_not_exists(path, value)
IfNotExists(item, attr, default) ==
    IF attr \in DOMAIN item THEN item[attr] ELSE default

ConvKey(m) == << PkOf(m), "CONVERSATION" >>

NoItem == [ key |-> << >> ]

ConvItem(key) ==
    IF \E x \in tableConvs : x.key = key
        THEN CHOOSE x \in tableConvs : x.key = key
        ELSE [ key |-> key ]

\* The UpdateExpression of saveOneMessage applied to the conversation item
\* (created by the update when absent).
UpdatedConv(old, m) ==
    LET counter == IF m.role = "user" THEN "userMessages" ELSE "assistantMessages"
        other   == IF m.role = "user" THEN "assistantMessages" ELSE "userMessages"
        base    == [ key            |-> old.key,
                     type           |-> IfNotExists(old, "type", "conversation"),
                     lastActivityAt |-> nowIso,
                     lastSequence   |-> IfNotExists(old, "lastSequence", -1),
                     messages       |-> IfNotExists(old, "messages", 0) + 1,
                     updatedAt      |-> nowIso ]
        withC   == [ a \in DOMAIN base \cup { counter } |->
                        IF a = counter THEN IfNotExists(old, counter, 0) + 1 ELSE base[a] ]
    IN  IF other \in DOMAIN old
            THEN [ a \in DOMAIN withC \cup { other } |->
                      IF a = other THEN old[other] ELSE withC[a] ]
            ELSE withC

\* One invocation of the handler before its loop.
NewInvocation(n) ==
    [ pc |-> "loop", count |-> n, todo |-> n, given |-> << >>,
      input |-> NoItem, message |-> NoItem,
      created |-> FALSE, saved |-> 0, idem |-> 0, roleUser |-> 0,
      roleAssistant |-> 0, errors |-> 0, response |-> NoItem ]

\* One invocation of the handler on the messages of a given body.
GivenInvocation(messages) ==
    [ NewInvocation(Len(messages)) EXCEPT !.given = messages ]

\* const messages = Array.isArray(body?.messages) ? body.messages : [body];
\* the message the loop takes next: the next one of the given body, or any
\* message when the body is left open.
InputsOf(r) ==
    IF r.given = << >> THEN Messages
    ELSE { r.given[r.count - r.todo + 1] }

\* return { statusCode: 200, body: JSON.stringify({ ok: true, saved }) }
ResponseOf(r) == [ statusCode |-> 200, ok |-> TRUE, saved |-> r.saved ]

\* what saveOneMessage gives back once the put is through, whether the update
\* of the conversation went through or not: .catch(warn), return { ok: true }
ResultAfterUpdateMutFatal(ok) == IF ok THEN "ok" ELSE "error"

ResultAfterUpdate(ok) == "ok"

\* A PutCommand that goes through writes the item under its key.
PutItem(table, item) ==
    { x \in table : ~(x.pk = item.pk /\ x.sk = item.sk) } \cup { item }

\* for (const m of messages) { const norm = normalizeMessage(m); role counters;
\* saveOneMessage(norm) ... } catch (err) { ... logger.error('save.error') }
TakeMessage(v) ==
    /\ inv[v].pc = "loop"
    /\ inv[v].todo > 0
    /\ \E m \in InputsOf(inv[v]) :
          LET norm == normalizeMessage(m, randomUUID(nCalls))
          IN  IF IsValidMessage(norm)
                THEN inv' = [ inv EXCEPT ![v].pc = "put",
                                         ![v].todo = @ - 1,
                                         ![v].input = m,
                                         ![v].message = norm,
                                         ![v].roleUser = @ + (IF norm.role = "user" THEN 1 ELSE 0),
                                         ![v].roleAssistant = @ + (IF norm.role = "user" THEN 0 ELSE 1) ]
                      /\ UNCHANGED callLog
                ELSE inv' = [ inv EXCEPT ![v].todo = @ - 1, ![v].errors = @ + 1 ]
                      /\ callLog' = Append(callLog,
                            [ inv |-> v, input |-> m, message |-> norm,
                              result |-> "invalid",
                              created |-> FALSE, updated |-> FALSE ])
    /\ nCalls' = nCalls + 1
    /\ UNCHANGED << tableMessages, tableConvs >>
    /\ UNCHANGED genVars
    /\ UNCHANGED prepareVars
    /\ UNCHANGED connVars
    /\ UNCHANGED runVars
    /\ UNCHANGED keyVars

\* await ddb.send(new PutCommand({ ..., ConditionExpression })): the item is
\* created, or the condition fails and the exception is swallowed in
\* saveOneMessage (message.idempotent_hit).
PutMessage(v) ==
    /\ inv[v].pc = "put"
    /\ LET item == ItemOf(inv[v].message)
       IN  IF KeyExists(item)
              THEN /\ UNCHANGED tableMessages
                   /\ inv' = [ inv EXCEPT ![v].pc = "update", ![v].created = FALSE ]
              ELSE /\ tableMessages' = PutItem(tableMessages, item)
                   /\ inv' = [ inv EXCEPT ![v].pc = "update", ![v].created = TRUE ]
    /\ UNCHANGED << tableConvs, callLog, nCalls >>
    /\ UNCHANGED genVars
    /\ UNCHANGED prepareVars
    /\ UNCHANGED connVars
    /\ UNCHANGED runVars
    /\ UNCHANGED keyVars

\* The PutCommand fails for another reason: saveOneMessage rethrows and the
\* handler's catch logs save.error and goes on with the next message.
PutMessageError(v) ==
    /\ inv[v].pc = "put"
    /\ inv' = [ inv EXCEPT ![v].pc = "loop", ![v].errors = @ + 1 ]
    /\ callLog' = Append(callLog,
          [ inv |-> v, input |-> inv[v].input, message |-> inv[v].message,
            result |-> "error",
            created |-> FALSE, updated |-> FALSE ])
    /\ UNCHANGED << tableMessages, tableConvs, nCalls >>
    /\ UNCHANGED genVars
    /\ UNCHANGED prepareVars
    /\ UNCHANGED connVars
    /\ UNCHANGED runVars
    /\ UNCHANGED keyVars

\* What the handler counts for a saveOneMessage that returned { ok: true }.
CountSaved(r) == [ r EXCEPT !.saved = @ + 1 ]

\* await ddb.send(update).catch(warn); return { ok: true, messageId }; then in
\* the handler: if (res?.ok) saved++
UpdateConversation(v) ==
    /\ inv[v].pc = "update"
    /\ \E ok \in BOOLEAN :
          /\ IF ok
                THEN LET old == ConvItem(ConvKey(inv[v].message))
                     IN  tableConvs' = (tableConvs \ { old })
                                          \cup { UpdatedConv(old, inv[v].message) }
                ELSE UNCHANGED tableConvs
          /\ callLog' = Append(callLog,
                [ inv |-> v, input |-> inv[v].input,
                  message |-> inv[v].message,
                  result |-> ResultAfterUpdate(ok),
                  created |-> inv[v].created, updated |-> ok ])
          /\ inv' = [ inv EXCEPT ![v] =
                        IF ResultAfterUpdate(ok) = "ok"
                          THEN [ CountSaved(@) EXCEPT !.pc = "loop" ]
                          ELSE [ @ EXCEPT !.pc = "loop", !.errors = @ + 1 ] ]
    /\ UNCHANGED << tableMessages, nCalls >>
    /\ UNCHANGED genVars
    /\ UNCHANGED prepareVars
    /\ UNCHANGED connVars
    /\ UNCHANGED runVars
    /\ UNCHANGED keyVars

\* emitEmf(...); return { statusCode: 200, body: { ok: true, saved } }
Finish(v) ==
    /\ inv[v].pc = "loop"
    /\ inv[v].todo = 0
    /\ inv' = [ inv EXCEPT ![v].pc = "done", ![v].response = ResponseOf(inv[v]) ]
    /\ UNCHANGED << tableMessages, tableConvs, callLog, nCalls >>
    /\ UNCHANGED genVars
    /\ UNCHANGED prepareVars
    /\ UNCHANGED connVars
    /\ UNCHANGED runVars
    /\ UNCHANGED keyVars

\* The text of an event as the string of a message.
RECURSIVE Str(_)
Str(s) == IF s = << >> THEN "" ELSE s[1] \o Str(Tail(s))

\* The message of the SaveAssistantFinal state for a final event: role
\* assistant, the conversation and the sequence of the execution, the text of
\* the final event, and no messageId.
AssistantFinal(final) ==
    [ correlationId |-> "c1", messageId |-> "", sequence |-> 1,
      role |-> "assistant", text |-> Str(final.text) ]

\* SaveAssistantFinal: after a run that returned 200, SaveChatHistory is
\* invoked with { messages: [ the final message ] }.
SaveAssistantFinal ==
    /\ pc = "done"
    /\ statusCode = 200
    /\ inv = << >>
    /\ inv' = << GivenInvocation(<< AssistantFinal(wsLog[Len(wsLog)]) >>) >>
    /\ UNCHANGED << tableMessages, tableConvs, callLog, nCalls >>
    /\ UNCHANGED genVars
    /\ UNCHANGED prepareVars
    /\ UNCHANGED connVars
    /\ UNCHANGED runVars
    /\ UNCHANGED keyVars

\* ------------------------------------------------------- PreparePrompt.js

\* array.map(...): the array of the values, each computed once.
Map(f) == f \o <<>>

\* A value that is no string: null.
Null == << "null" >>

\* Strings the four regular expressions of sanitizeText match. The texts of
\* the model are built so that an expression matches exactly the occurrences
\* of its samples, and the expression is modelled as that set of literals.
EmailSample ==
    << "a", "@", "b", ".", "c", "o" >>

PhoneSample ==
    << "1", "1", "9", "1", "2", "3", "4", "5", "6", "7", "8" >>

AwsKeySample ==
    << "A", "K", "I", "A", "A", "B", "C", "D", "E", "F", "G", "H", "I",
          "J", "K", "L", "M", "N", "O", "P" >>

SecretSample ==
    << "s", "e", "n", "h", "a", "=", "'", "a", "b", "c", "d", "e", "f",
          "g", "h", "'" >>

\* The replace calls of sanitizeText, in their order: counter, literals of
\* the expression, placeholder, flag.
Categories ==
    << [ stat |-> "email", samples |-> { EmailSample }, flag |-> "pii:email",
         placeholder |->
       << "[", "E", "M", "A", "I", "L", "]" >> ],
       [ stat |-> "phone", samples |-> { PhoneSample }, flag |-> "pii:phone",
         placeholder |->
       << "[", "P", "H", "O", "N", "E", "]" >> ],
       [ stat |-> "awsKey", samples |-> { AwsKeySample },
         flag |-> "secret:aws-key",
         placeholder |->
       << "[", "A", "W", "S", "_", "A", "C", "C", "E", "S", "S", "_", "K",
          "E", "Y", "_", "I", "D", "]" >> ],
       [ stat |-> "secret", samples |-> { SecretSample },
         flag |-> "secret:generic",
         placeholder |->
       << "[", "S", "E", "C", "R", "E", "T", "_", "R", "E", "D", "A", "C",
          "T", "E", "D", "]" >> ] >>

StatNames == { Categories[c].stat : c \in DOMAIN Categories }

\* const stats = { email: 0, phone: 0, awsKey: 0, secret: 0 }
ZeroStats == [ s \in StatNames |-> 0 ]

\* Length of the match of one of the literals at position i of t (0: none).
MatchLenAt(t, i, lits) ==
    LET ms == { l \in lits : /\ i + Len(l) - 1 <= Len(t)
                             /\ SubSeq(t, i, i + Len(l) - 1) = l }
    IN  IF ms = {} THEN 0
        ELSE Len(CHOOSE l \in ms : \A o \in ms : Len(o) <= Len(l))

\* t.replace(/.../g, (m) => { count++; return placeholder }) from position i:
\* matches are taken from left to right and do not overlap.
RECURSIVE ReplaceFrom(_, _, _, _)
ReplaceFrom(t, i, lits, repl) ==
    LET hits == { j \in i..Len(t) : MatchLenAt(t, j, lits) > 0 }
    IN  IF hits = {} THEN [ text |-> SubSeq(t, i, Len(t)), n |-> 0 ]
        ELSE LET j == CHOOSE x \in hits : \A y \in hits : x <= y
                 r == ReplaceFrom(t, j + MatchLenAt(t, j, lits), lits, repl)
             IN  [ text |-> SubSeq(t, i, j - 1) \o repl \o r.text,
                   n    |-> r.n + 1 ]

\* The first c replace calls of sanitizeText applied to the text.
RECURSIVE SanitizeUpTo(_, _)
SanitizeUpTo(text, c) ==
    IF c = 0 THEN [ text |-> text, stats |-> ZeroStats ]
    ELSE LET before == SanitizeUpTo(text, c - 1)
             r      == ReplaceFrom(before.text, 1, Categories[c].samples,
                                   Categories[c].placeholder)
         IN  [ text  |-> r.text,
               stats |-> [ before.stats EXCEPT ![Categories[c].stat] = r.n ] ]

\* sanitizeText(text, flags): the text, the counters and the flags set with
\* the flag of every category whose counter is not zero added.
sanitizeText(text, flags) ==
    LET r == SanitizeUpTo(text, Len(Categories))
    IN  [ text  |-> r.text,
          stats |-> r.stats,
          flags |-> flags \cup { Categories[c].flag :
                        c \in { d \in DOMAIN Categories :
                                  r.stats[Categories[d].stat] > 0 } } ]

countTokensMutNoFloor(s) == CeilDiv(Len(s), Max(1, prepareENV.tokenPerChar))

\* const countTokens = (s) =>
\*   Math.max(1, Math.ceil(String(s || '').length / Math.max(1, ENV.tokenPerChar)))
countTokens(s) == Max(1, CeilDiv(Len(s), Max(1, prepareENV.tokenPerChar)))

\* budgetForPrompt(userText, systemText)
budgetForPrompt(userText, systemText) ==
    LET maxIn        == prepareENV.maxInputTokens
        reservedOut  == Max(0, Min(prepareENV.reservedOutputTokens, maxIn \div 2))
        baseOverhead == countTokens(userText) + countTokens(systemText)
        availableForHistory ==
            Max(0, Min(prepareENV.maxHistoryTokens,
                       maxIn - reservedOut - baseOverhead))
    IN  [ maxInputTokens      |-> maxIn,
          reservedOutput      |-> reservedOut,
          availableForHistory |-> availableForHistory ]

\* clampHistory(history): { role: h.role || 'user', text }, blank texts
\* dropped, the maxHistoryMessages most recent kept
clampHistory(history) ==
    LET norm == Map([ i \in 1..Len(history) |->
                    [ role |-> IF history[i].role = <<>>
                                 THEN
       << "u", "s", "e", "r" >>
                                 ELSE history[i].role,
                      text |-> history[i].text ] ])
        full == SelectSeq(norm, LAMBDA h : Len(Trim(h.text)) > 0)
        maxN == prepareENV.maxHistoryMessages
    IN  IF Len(full) > maxN
          THEN SubSeq(full, Len(full) - maxN + 1, Len(full))
          ELSE full

\* const keepTail = 4
keepTailMutFive == 5

keepTail == 4

\* bullets = older.map((h) => `* ${h.role}: ${truncate(h.text, 140)}`)
Bullet(h) ==
    << "*", " " >> \o h.role \o << ":", " " >> \o truncate(h.text, 140)

\* while (countTokens(summary) > targetTokens && summary.length > 80)
\*   summary = summary.slice(Math.floor(summary.length * 0.85))
\* the length under which the loop leaves the summary alone
ShortenFloorMutLong == 160

ShortenFloor == 80

RECURSIVE Shorten(_, _)
Shorten(summary, targetTokens) ==
    IF countTokens(summary) > targetTokens /\ Len(summary) > ShortenFloor
      THEN Shorten(SubSeq(summary, (Len(summary) * 85) \div 100 + 1,
                          Len(summary)),
                   targetTokens)
      ELSE summary

\* summarizeOlder(history, targetTokens)
summarizeOlder(history, targetTokens) ==
    IF Len(history) <= keepTail THEN [ kept |-> history, summary |-> Null ]
    ELSE LET older   == SubSeq(history, 1, Len(history) - keepTail)
             recent  == SubSeq(history, Len(history) - keepTail + 1,
                               Len(history))
             bullets == Map([ i \in 1..Len(older) |-> Bullet(older[i]) ])
         IN  [ kept    |-> recent,
               summary |-> Shorten(Join(bullets, << "\n" >>), targetTokens) ]

\* x && ..., x || '': null and the empty string are falsy
Truthy(s) == s # Null /\ s # <<>>

\* buildComposite({ system, user, historyKept, historySummary })
buildComposite(system, user, historyKept, historySummary) ==
    LET line(h) == << "-", " " >> \o h.role \o << ":", " " >>
                      \o truncate(h.text, 180)
        recent  == Join(Map([ i \in 1..Len(historyKept) |->
                                 line(historyKept[i]) ]),
                        << "\n" >>)
        blocks  ==
            (IF Truthy(system)
               THEN <<
       << "S", "I", "S", "T", "E", "M", "A", ":", "\n" >>
                       \o system >>
               ELSE <<>>)
            \o (IF Truthy(historySummary)
                  THEN <<
       << "R", "E", "S", "U", "M", "O", " ", "D", "O", " ", "H", "I", "S",
          "T", "O", "R", "I", "C", "O", ":", "\n" >>
                          \o historySummary >>
                  ELSE <<>>)
            \o (IF Len(historyKept) # 0
                  THEN <<
       << "H", "I", "S", "T", "O", "R", "I", "C", "O", " ", "R", "E", "C",
          "E", "N", "T", "E", ":", "\n" >>
                          \o recent >>
                  ELSE <<>>)
            \o <<
       << "S", "O", "L", "I", "C", "I", "T", "A", "C", "A", "O", " ", "A",
          "T", "U", "A", "L", ":", "\n" >>
                  \o user >>
            \o <<
       << "I", "N", "S", "T", "R", "U", "C", "O", "E", "S", " ", "D", "E",
          " ", "R", "E", "S", "P", "O", "S", "T", "A", ":", "\n", "-",
          " ", "S", "e", "j", "a", " ", "c", "l", "a", "r", "o", " ", "e",
          " ", "i", "n", "c", "r", "e", "m", "e", "n", "t", "a", "l", ".",
          "\n", "-", " ", "P", "r", "o", "p", "o", "n", "h", "a", " ",
          "p", "r", "o", "x", "i", "m", "o", "s", " ", "p", "a", "s", "s",
          "o", "s", " ", "p", "r", "a", "t", "i", "c", "o", "s", ".",
          "\n", "-", " ", "S", "e", " ", "f", "a", "l", "t", "a", "r",
          " ", "d", "a", "d", "o", ",", " ", "e", "x", "p", "l", "i", "c",
          "i", "t", "e", " ", "a", "s", " ", "s", "u", "p", "o", "s", "i",
          "c", "o", "e", "s", ".", "\n", "-", " ", "F", "o", "r", "m",
          "a", "t", "e", " ", "l", "i", "s", "t", "a", "s", " ", "c", "o",
          "m", " ", "m", "a", "r", "c", "a", "d", "o", "r", "e", "s", " ",
          "q", "u", "a", "n", "d", "o", " ", "u", "t", "i", "l", "." >> >>
    IN  Join(blocks, << "\n", "\n" >>)

\* /.../i: the letters of the model's texts, upper case to lower case
UpperCase ==
    << "A", "B", "C", "D", "E", "F", "G", "H", "I", "J", "K", "L", "M",
          "N", "O", "P", "Q", "R", "S", "T", "U", "V", "W", "X", "Y", "Z" >>

LowerCase ==
    << "a", "b", "c", "d", "e", "f", "g", "h", "i", "j", "k", "l", "m",
          "n", "o", "p", "q", "r", "s", "t", "u", "v", "w", "x", "y", "z" >>

Lower(s) ==
    Map([ i \in 1..Len(s) |->
            IF \E k \in 1..Len(UpperCase) : UpperCase[k] = s[i]
              THEN LowerCase[CHOOSE k \in 1..Len(UpperCase) : UpperCase[k] = s[i]]
              ELSE s[i] ])

\* const pt = /(que|com|para|...)/i
PtWords ==
    { << "q", "u", "e" >>,
      << "c", "o", "m" >>,
      << "p", "a", "r", "a" >>,
      << "n", "a", "o" >>,
      << "s", "i", "m" >>,
      << "e", "r", "r", "o" >>,
      << "p", "r", "o", "b", "l", "e", "m", "a" >>,
      << "m", "e", "l", "h", "o", "r", "i", "a" >>,
      << "a", "n", "a", "l", "i", "s", "e" >>,
      << "i", "n", "v", "e", "s", "t", "i", "g", "a", "c", "a", "o" >> }

\* const en = /(the|and|for|...)/i
EnWords ==
    { << "t", "h", "e" >>,
      << "a", "n", "d" >>,
      << "f", "o", "r" >>,
      << "n", "o", "t" >>,
      << "y", "e", "s" >>,
      << "e", "r", "r", "o", "r" >>,
      << "i", "s", "s", "u", "e" >>,
      << "i", "m", "p", "r", "o", "v", "e", "m", "e", "n", "t" >>,
      << "a", "n", "a", "l", "y", "s", "i", "s" >>,
      << "i", "n", "v", "e", "s", "t", "i", "g", "a", "t", "i", "o",
           "n" >> }

\* regexp.test(text) for an alternation of words
TestWords(words, text) ==
    LET lower == Lower(text)
    IN  \E i \in 1..Len(lower) : MatchLenAt(lower, i, words) > 0

\* detectLanguage(text)
detectLanguage(text) ==
    IF TestWords(PtWords, text) /\ ~TestWords(EnWords, text) THEN "pt-BR"
    ELSE IF TestWords(EnWords, text) /\ ~TestWords(PtWords, text) THEN "en-US"
    ELSE "null"

\* buildSystemInstruction(lang)
buildSystemInstruction(lang) ==
    IF prepareENV.systemInstruction # <<>> THEN prepareENV.systemInstruction
    ELSE IF lang = "en-US"
      THEN
       << "Y", "o", "u", " ", "a", "r", "e", " ", "A", "l", "e", "t", "h",
          "e", "I", "A", ",", " ", "a", "n", " ", "i", "n", "v", "e", "s",
          "t", "i", "g", "a", "t", "i", "v", "e", " ", "A", "I", " ", "a",
          "g", "e", "n", "t", ".", " ", "G", "o", "a", "l", "s", ":", " ",
          "c", "l", "a", "r", "i", "f", "y", " ", "t", "h", "e", " ", "i",
          "s", "s", "u", "e", ",", " ", "h", "y", "p", "o", "t", "h", "e",
          "s", "i", "z", "e", " ", "c", "a", "u", "s", "e", "s", ",", " ",
          "p", "r", "o", "p", "o", "s", "e", " ", "n", "e", "x", "t", " ",
          "s", "t", "e", "p", "s", ".", " ", "S", "t", "y", "l", "e", ":",
          " ", "c", "o", "n", "c", "i", "s", "e", ",", " ", "s", "t", "e",
          "p", "w", "i", "s", "e", ",", " ", "d", "e", "v", "e", "l", "o",
          "p", "e", "r", "-", "f", "r", "i", "e", "n", "d", "l", "y", "." >>
      ELSE
       << "V", "o", "c", "e", " ", "e", " ", "a", " ", "A", "l", "e", "t",
          "h", "e", "I", "A", ",", " ", "a", "g", "e", "n", "t", "e", " ",
          "d", "e", " ", "i", "n", "v", "e", "s", "t", "i", "g", "a", "c",
          "a", "o", " ", "a", "s", "s", "i", "s", "t", "i", "d", "a", " ",
          "p", "o", "r", " ", "I", "A", ".", " ", "O", "b", "j", "e", "t",
          "i", "v", "o", ":", " ", "e", "s", "c", "l", "a", "r", "e", "c",
          "e", "r", " ", "o", " ", "p", "r", "o", "b", "l", "e", "m", "a",
          ",", " ", "l", "e", "v", "a", "n", "t", "a", "r", " ", "h", "i",
          "p", "o", "t", "e", "s", "e", "s", " ", "d", "e", " ", "c", "a",
          "u", "s", "a", " ", "e", " ", "s", "u", "g", "e", "r", "i", "r",
          " ", "p", "r", "o", "x", "i", "m", "o", "s", " ", "p", "a", "s",
          "s", "o", "s", " ", "p", "r", "a", "t", "i", "c", "o", "s", ".",
          " ", "E", "s", "t", "i", "l", "o", ":", " ", "c", "o", "n", "c",
          "i", "s", "o", ",", " ", "p", "a", "s", "s", "o", " ", "a", " ",
          "p", "a", "s", "s", "o", ",", " ", "a", "m", "i", "g", "a", "v",
          "e", "l", " ", "a", " ", "d", "e", "s", "e", "n", "v", "o", "l",
          "v", "e", "d", "o", "r", "e", "s", "." >>

\* The prepared prompt the handler builds for an input it accepts.
PreparedOf(input) ==
    LET rawUser    == Trim(input.text)
        detected   == detectLanguage(rawUser)
        lang       == IF detected = "null" THEN prepareENV.defaultLanguage
                      ELSE detected
        userSan    == IF prepareENV.redactPII THEN sanitizeText(rawUser, {})
                      ELSE [ text |-> rawUser, stats |-> ZeroStats, flags |-> {} ]
        clamped    == clampHistory(input.history)
        histSan    == Map([ i \in 1..Len(clamped) |->
                            IF prepareENV.redactPII
                              THEN sanitizeText(clamped[i].text, {})
                              ELSE [ text |-> clamped[i].text, flags |-> {} ] ])
        flags      == userSan.flags
                      \cup UNION { histSan[i].flags : i \in 1..Len(clamped) }
        histNorm   == Map([ i \in 1..Len(clamped) |->
                            [ role |-> clamped[i].role,
                              text |-> histSan[i].text ] ])
        system     == buildSystemInstruction(lang)
        budget     == budgetForPrompt(userSan.text, system)
        compacted  == summarizeOlder(histNorm,
                          Max(1, (budget.availableForHistory * 6) \div 10))
        kept       == compacted.kept
        summary    == compacted.summary
        keptLines  == Map([ i \in 1..Len(kept) |->
                            kept[i].role \o << ":", " " >> \o kept[i].text ])
        keptTokens == countTokens(Join(keptLines, << "\n" >>))
                      + countTokens(IF Truthy(summary) THEN summary ELSE <<>>)
    IN  [ system    |-> system,
          user      |-> userSan.text,
          history   |-> kept,
          summary   |-> summary,
          composite |-> buildComposite(system, userSan.text, kept, summary),
          budget    |-> [ maxInputTokens      |-> budget.maxInputTokens,
                          reservedOutput      |-> budget.reservedOutput,
                          availableForHistory |-> budget.availableForHistory,
                          usedByHistory       |-> keptTokens ],
          safety    |-> [ flags |-> flags, redactions |-> userSan.stats ],
          lang      |-> lang ]

\* handler: http(400, { error: 'missing_user_text' }) for a text that is empty
\* once trimmed, else http(200, { ...input, correlationId, messageId, prepared });
\* ids the input does not carry are random.
handlerMutStamped(input, uuid) ==
    IF Trim(input.text) = <<>>
      THEN [ statusCode |-> 400, error |-> "missing_user_text" ]
      ELSE [ statusCode |-> 200,
             messageId  |-> IF input.messageId = "" THEN uuid
                            ELSE input.messageId,
             prepared   |-> [ PreparedOf(input) EXCEPT
                                !.composite = @ \o << uuid >> ] ]

handler(input, uuid) ==
    IF Trim(input.text) = <<>>
      THEN [ statusCode |-> 400, error |-> "missing_user_text" ]
      ELSE [ statusCode |-> 200,
             messageId  |-> IF input.messageId = "" THEN uuid
                            ELSE input.messageId,
             prepared   |-> PreparedOf(input) ]

\* ---------------------------------------------- inputs of PreparePrompt

\* The environment of the function: the defaults of the source, a small
\* budget with a cap of five history messages and an own system instruction,
\* and a third one that counts one token per character, without redaction.
PrepareEnvs ==
    { [ maxInputTokens |-> 6200, reservedOutputTokens |-> 800,
        maxHistoryTokens |-> 4000, maxHistoryMessages |-> 12,
        tokenPerChar |-> 4, redactPII |-> TRUE,
        systemInstruction |-> <<>>, defaultLanguage |-> "pt-BR" ],
      [ maxInputTokens |-> 120, reservedOutputTokens |-> 40,
        maxHistoryTokens |-> 60, maxHistoryMessages |-> 5,
        tokenPerChar |-> 4, redactPII |-> TRUE,
        systemInstruction |->
       << "S", "e", "j", "a", " ", "b", "r", "e", "v", "e", "." >>,
        defaultLanguage |-> "pt-BR" ],
      [ maxInputTokens |-> 40, reservedOutputTokens |-> 30,
        maxHistoryTokens |-> 30, maxHistoryMessages |-> 12,
        tokenPerChar |-> 1, redactPII |-> FALSE,
        systemInstruction |->
       << "S", "e", "j", "a", " ", "b", "r", "e", "v", "e", "." >>,
        defaultLanguage |-> "en-US" ] }

\* input.payload.text
UserTexts ==
    { << " ", " " >>,
       << "e", "r", "r", "o", " ", "a", "@", "b", ".", "c", "o", " ", "a",
          "@", "b", ".", "c", "o" >>,
       << " ", "t", "h", "e", " ", "f", "o", "n", "e", " ", "1", "1", "9",
          "1", "2", "3", "4", "5", "6", "7", "8", " ", "s", "e", "n", "h",
          "a", "=", "'", "a", "b", "c", "d", "e", "f", "g", "h", "'", " ",
          "A", "K", "I", "A", "A", "B", "C", "D", "E", "F", "G", "H", "I",
          "J", "K", "L", "M", "N", "O", "P" >> }

\* Entries of input.context.history: a blank one, one without role that
\* holds an e-mail address, and a long one.
HistoryEntries ==
    { [ role |->
       << "u", "s", "e", "r" >>,
        text |-> << " " >> ],
      [ role |-> <<>>,
        text |->
       << "v", "e", "r", " ", "a", "@", "b", ".", "c", "o" >> ],
      [ role |->
       << "a", "s", "s", "i", "s", "t", "a", "n", "t" >>,
        text |-> [ i \in 1..150 |-> "x" ] ] }

RECURSIVE SeqsUpTo(_, _)
SeqsUpTo(S, n) ==
    IF n = 0 THEN { <<>> }
    ELSE LET shorter == SeqsUpTo(S, n - 1)
         IN  shorter \cup { Append(s, x) : s \in shorter, x \in S }

\* A text with e-mail addresses in front of every history up to MaxHistory
\* entries, and every text in front of the short histories; the caller gives
\* a messageId or leaves it out.
PrepareEvents ==
    [ text : {
       << "e", "r", "r", "o", " ", "a", "@", "b", ".", "c", "o", " ", "a",
          "@", "b", ".", "c", "o" >> },
      history : SeqsUpTo(HistoryEntries, MaxHistory),
      messageId : { "" } ]
    \cup [ text : UserTexts, history : SeqsUpTo(HistoryEntries, 2),
           messageId : { "", "m1" } ]

\* ---------------------------------------------- PreparePrompt invocations

\* One invocation of the handler on the event; the random identifier is new
\* at every invocation.
Prepare ==
    /\ Len(responses) < MaxPrepares
    /\ responses' = Append(responses,
                           handler(event, << "uuid", Len(responses) + 1 >>))
    /\ UNCHANGED << prepareENV, event >>
    /\ UNCHANGED genVars
    /\ UNCHANGED ledgerVars
    /\ UNCHANGED connVars
    /\ UNCHANGED runVars
    /\ UNCHANGED keyVars

\* ------------------------------- ConnectFunction.js and disconnectWS.js

\* CONNECTION_TTL_MINUTES (default: 180)
ttlMinutes == 180

\* const ttlEpoch = (min) => Math.floor(Date.now() / 1000) + Math.max(1, min) * 60
ttlEpoch(now, min) == (now \div 1000) + Max(1, min) * 60

\* requestContext.connectionId of an event; "" when it is absent.
ConnectionIds == { "", "k1", "k2" }

\* queryStringParameters of a $connect: none, or a conversation and a user.
QueryStrings ==
    { [ correlationId |-> "", userId |-> "" ],
      [ correlationId |-> "c1", userId |-> "u1" ] }

ConnectEvents == [ connectionId : ConnectionIds, qs : QueryStrings ]

\* What the store does with a command: it evaluates it, or fails for a reason
\* of its own (throttling, outage).
StoreAnswers == { "evaluated", "failed" }

\* TABLE_CONNECTIONS: set, or missing from the environment.
ConnEnvs == { [ table |-> "connections" ], [ table |-> "" ] }

\* `conv-${randomUUID()}`
GeneratedConversation(now) == << "conv", "uuid", now >>

\* const item = { pk, sk, type: 'connection', ... status: 'CONNECTED', ... }
\* for an event without authorizer, headers, identity and requestTimeEpoch.
ConnectionItem(e, now) ==
    LET conversationId == IF e.qs.correlationId # ""
                            THEN << e.qs.correlationId >>
                            ELSE GeneratedConversation(now)
        userId == IF e.qs.userId # "" THEN e.qs.userId ELSE "anonymous"
    IN  [ pk |-> << "CONN", e.connectionId >>, sk |-> "CONNECTION",
          type |-> "connection", connectionId |-> e.connectionId,
          conversationId |-> conversationId, userId |-> userId,
          status |-> "CONNECTED", connectedAt |-> now,
          requestTimeEpoch |-> now, userAgent |-> "null", ip |-> "null",
          gsi1pk |-> << "CONV", conversationId >>,
          gsi1sk |-> << "CONN", e.connectionId >>,
          gsi2pk |-> << "USER", userId >>,
          gsi2sk |-> << "CONN", e.connectionId >>,
          ttl |-> ttlEpoch(now, ttlMinutes) ]

ConnectionExistsMutNever(pk, sk) == FALSE

\* attribute_exists(pk) AND attribute_exists(sk) on the item of the key
ConnectionExists(pk, sk) ==
    \E x \in tableConnections : x.pk = pk /\ x.sk = sk

\* An invocation that returned before its emitEmf.
NoEmf == [ none |-> TRUE ]

DisconnectedMutUntouched(x, now) == x

\* UpdateExpression: 'SET #status = :disc, #discAt = :now, #updated = :now'
Disconnected(x, now) ==
    [ a \in DOMAIN x \cup { "status", "disconnectedAt", "updatedAt" } |->
        IF a = "status" THEN "DISCONNECTED"
        ELSE IF a \in { "disconnectedAt", "updatedAt" } THEN now
        ELSE x[a] ]

DisconnectConditionMutNone(pk, sk) == TRUE

\* ConditionExpression of the UpdateCommand:
\* 'attribute_exists(pk) AND attribute_exists(sk)'
DisconnectCondition(pk, sk) == ConnectionExists(pk, sk)

\* An UpdateCommand whose condition held: the item of the key gets the
\* attributes of the UpdateExpression; an item that does not exist is
\* created with its key and these attributes.
UpdateItem(table, pk, sk, now) ==
    IF \E x \in table : x.pk = pk /\ x.sk = sk
      THEN { IF x.pk = pk /\ x.sk = sk THEN Disconnected(x, now) ELSE x :
             x \in table }
      ELSE table \cup { Disconnected([ pk |-> pk, sk |-> sk ], now) }

\* The handler of $connect: one conditional PutCommand.
ConnectFunction ==
    /\ Len(connLog) < MaxConnCalls
    /\ \E e \in ConnectEvents, answer \in StoreAnswers :
          LET item == ConnectionItem(e, clock)
              done(code, body, msg, emf) ==
                  connLog' = Append(connLog,
                      [ op |-> "connect", connectionId |-> e.connectionId,
                        statusCode |-> code, body |-> body, msg |-> msg,
                        emf |-> emf ])
          IN  IF connENV.table = ""
                THEN done(500, "env missing", "env.missing", NoEmf)
                     /\ UNCHANGED tableConnections
              ELSE IF e.connectionId = ""
                THEN done(400, "missing connectionId", "none", NoEmf)
                     /\ UNCHANGED tableConnections
              ELSE IF answer = "failed"
                THEN done(500, "error", "connect.error",
                          [ Connected |-> 0, Errors |-> 1 ])
                     /\ UNCHANGED tableConnections
              ELSE IF ConnectionExists(item.pk, item.sk)
                THEN done(200, "OK", "idempotent_hit",
                          [ Connected |-> 0, Errors |-> 0 ])
                     /\ UNCHANGED tableConnections
              ELSE done(200, "OK", "connected",
                        [ Connected |-> 1, Errors |-> 0 ])
                   /\ tableConnections' = PutItem(tableConnections, item)
    /\ clock' = clock + 1
    /\ UNCHANGED connENV
    /\ UNCHANGED genVars
    /\ UNCHANGED ledgerVars
    /\ UNCHANGED prepareVars
    /\ UNCHANGED runVars
    /\ UNCHANGED keyVars

\* The handler of $disconnect: one conditional UpdateCommand.
disconnectWS ==
    /\ Len(connLog) < MaxConnCalls
    /\ \E connectionId \in ConnectionIds, answer \in StoreAnswers :
          LET pk == << "CONN", connectionId >>
              done(code, body, msg, emf) ==
                  connLog' = Append(connLog,
                      [ op |-> "disconnect", connectionId |-> connectionId,
                        statusCode |-> code, body |-> body, msg |-> msg,
                        emf |-> emf ])
          IN  IF connENV.table = ""
                THEN done(500, "env missing", "env.missing", NoEmf)
                     /\ UNCHANGED tableConnections
              ELSE IF connectionId = ""
                THEN done(400, "missing connectionId", "none", NoEmf)
                     /\ UNCHANGED tableConnections
              ELSE IF answer = "failed"
                THEN done(500, "error", "disconnect.error",
                          [ Disconnected |-> 0, NotFound |-> 0, Errors |-> 1 ])
                     /\ UNCHANGED tableConnections
              ELSE IF DisconnectCondition(pk, "CONNECTION")
                THEN done(200, "OK", "disconnected",
                          [ Disconnected |-> 1, NotFound |-> 0, Errors |-> 0 ])
                     /\ tableConnections' =
                           UpdateItem(tableConnections, pk, "CONNECTION", clock)
              ELSE done(200, "OK", "disconnect.not_found",
                        [ Disconnected |-> 0, NotFound |-> 1, Errors |-> 0 ])
                   /\ UNCHANGED tableConnections
    /\ clock' = clock + 1
    /\ UNCHANGED connENV
    /\ UNCHANGED genVars
    /\ UNCHANGED ledgerVars
    /\ UNCHANGED prepareVars
    /\ UNCHANGED runVars
    /\ UNCHANGED keyVars

GenInit ==
    /\ pc = "start"
    /\ chunkIndex = 0
    /\ aggregated = <<>>
    /\ totalChars = 0
    /\ piece = <<>>
    /\ produced = <<>>
    /\ streamEnded = FALSE
    /\ attempt = 0
    /\ wsLog = <<>>
    /\ connGone = FALSE
    /\ statusCode = 0
    /\ turn = NoTurn
    /\ opens = 0
    /\ streamFailed = FALSE

LedgerInit ==
    /\ tableMessages = {}
    /\ tableConvs = {}
    /\ inv = <<>>
    /\ callLog = <<>>
    /\ nCalls = 0

\* ENV of GenerateChunk: any of the price lists, or the one of an environment
\* that sets no price.
EnvInit == ENV \in Envs

EnvUnset == ENV = [ pricingIn |-> 0, pricingOut |-> 0 ]

\* PreparePrompt is not invoked.
PrepareIdle ==
    /\ prepareENV = CHOOSE e \in PrepareEnvs : e.systemInstruction = <<>>
    /\ event = [ text |-> <<>>, history |-> <<>>, messageId |-> "" ]
    /\ responses = <<>>

\* PreparePrompt is given any event under any environment.
PrepareInit ==
    /\ prepareENV \in PrepareEnvs
    /\ event \in PrepareEvents
    /\ responses = <<>>

\* No $connect and no $disconnect is handled.
ConnIdle ==
    /\ connENV = [ table |-> "connections" ]
    /\ tableConnections = {}
    /\ connLog = <<>>
    /\ clock = 0

\* The connection handlers start on an empty table.
ConnInit ==
    /\ connENV \in ConnEnvs
    /\ tableConnections = {}
    /\ connLog = <<>>
    /\ clock = 0

\* No sort key is built.
KeysIdle ==
    /\ keyPair = << >>
    /\ sortKeys = << >>

\* Any two messages of one conversation are about to be stored.
KeysInit ==
    /\ keyPair \in KeyMessages \X KeyMessages
    /\ sortKeys = << >>

\* No invocations run side by side.
RunsIdle ==
    /\ runs = << >>
    /\ wsByMessage = << >>

\* Two invocations of GenerateChunk on the same turn (the second one a
\* retried invocation) are about to run side by side; nothing was presented
\* to the gateway under their message ids.
RunsInit ==
    /\ \E t \in RunTurns : runs = << NewRun(t), NewRun(t) >>
    /\ wsByMessage = [ id \in { outMsgId(1), outMsgId(2) } |-> << >> ]

Init == GenInit /\ EnvInit /\ LedgerInit /\ PrepareIdle /\ ConnIdle /\ RunsIdle /\ KeysIdle

\* One invocation with a batch of up to MaxCalls messages.
LedgerBatchInit ==
    /\ tableMessages = {}
    /\ tableConvs = {}
    /\ \E n \in 1..MaxCalls : inv = << NewInvocation(n) >>
    /\ callLog = <<>>
    /\ nCalls = 0

\* Two concurrent invocations, each with one message.
LedgerRaceInit ==
    /\ tableMessages = {}
    /\ tableConvs = {}
    /\ inv = << NewInvocation(1), NewInvocation(1) >>
    /\ callLog = <<>>
    /\ nCalls = 0

LedgerNext ==
    \/ \E v \in DOMAIN inv : TakeMessage(v)
    \/ \E v \in DOMAIN inv : PutMessage(v)
    \/ \E v \in DOMAIN inv : PutMessageError(v)
    \/ \E v \in DOMAIN inv : UpdateConversation(v)
    \/ \E v \in DOMAIN inv : Finish(v)

InitLedger == GenInit /\ EnvUnset /\ LedgerBatchInit /\ PrepareIdle /\ ConnIdle /\ RunsIdle /\ KeysIdle

InitRace == GenInit /\ EnvUnset /\ LedgerRaceInit /\ PrepareIdle /\ ConnIdle /\ RunsIdle /\ KeysIdle

SpecLedger == InitLedger /\ [][LedgerNext]_vars

SpecRace == InitRace /\ [][LedgerNext]_vars

Next ==
    \/ Validate
    \/ OpenStream
    \/ PullFragment
    \/ PullEnd
    \/ PullError
    \/ SendChunk
    \/ SendFinal
    \/ SendError

Spec == Init /\ [][Next]_vars

\* The handler is one sequential async function: each of its awaits resolves
\* and the step after it is taken.
SpecFair == Init /\ [][Next]_vars /\ WF_vars(Next)

\* A turn from the generation to the persistence of its final message.
TurnNext ==
    \/ Validate
    \/ OpenStream
    \/ PullFragment
    \/ PullEnd
    \/ PullError
    \/ SendChunk
    \/ SendFinal
    \/ SendError
    \/ SaveAssistantFinal
    \/ \E v \in DOMAIN inv : TakeMessage(v)
    \/ \E v \in DOMAIN inv : PutMessage(v)
    \/ \E v \in DOMAIN inv : PutMessageError(v)
    \/ \E v \in DOMAIN inv : UpdateConversation(v)
    \/ \E v \in DOMAIN inv : Finish(v)

InitTurn == GenInit /\ EnvUnset /\ LedgerInit /\ PrepareIdle /\ ConnIdle /\ RunsIdle /\ KeysIdle

SpecTurn == InitTurn /\ [][TurnNext]_vars

InitPrepare == GenInit /\ EnvUnset /\ LedgerInit /\ PrepareInit /\ ConnIdle /\ RunsIdle /\ KeysIdle

PrepareNext ==
    \/ Prepare

SpecPrepare == InitPrepare /\ [][PrepareNext]_vars

InitConn == GenInit /\ EnvUnset /\ LedgerInit /\ PrepareIdle /\ ConnInit /\ RunsIdle /\ KeysIdle

\* API Gateway invokes the two handlers in any order, for any connection.
ConnNext ==
    \/ ConnectFunction
    \/ disconnectWS

SpecConn == InitConn /\ [][ConnNext]_vars

InitKeys ==
    GenInit /\ EnvUnset /\ LedgerInit /\ PrepareIdle /\ ConnIdle /\ RunsIdle
    /\ KeysInit

KeysNext ==
    \/ BuildKeys

SpecKeys == InitKeys /\ [][KeysNext]_vars

InitRuns ==
    GenInit /\ EnvUnset /\ LedgerInit /\ PrepareIdle /\ ConnIdle /\ RunsInit
    /\ KeysIdle

\* The steps of the two invocations interleave in any order.
RunsNext ==
    \/ \E r \in DOMAIN runs : RunStart(r)
    \/ \E r \in DOMAIN runs : RunPullFragment(r)
    \/ \E r \in DOMAIN runs : RunPullEnd(r)
    \/ \E r \in DOMAIN runs : RunPullError(r)
    \/ \E r \in DOMAIN runs : RunSendChunk(r)
    \/ \E r \in DOMAIN runs : RunSendFinal(r)
    \/ \E r \in DOMAIN runs : RunSendError(r)

SpecRuns == InitRuns /\ [][RunsNext]_vars

\* ------------------------------------------------- properties: generation

\* The PostToConnection calls that were delivered, in order.
Delivered == SelectSeq(wsLog, LAMBDA a : a.outcome = "delivered")

AllDelivered == \A i \in 1..Len(wsLog) : wsLog[i].outcome = "delivered"

\* Two attempts present the same event to the gateway.
SameEvent(a, b) == a.messageType = b.messageType /\ a.chunkIndex = b.chunkIndex

\* Positions of the attempts of chunk k that were not delivered.
ChunkFailures(k) ==
    { i \in 1..Len(wsLog) : /\ wsLog[i].messageType = "chunk"
                            /\ wsLog[i].chunkIndex = k
                            /\ wsLog[i].outcome # "delivered" }

\* Positions of the attempts of chunk k that failed transiently.
ChunkTransientFailures(k) ==
    { i \in ChunkFailures(k) : wsLog[i].outcome = "failed" }

SetMax(S) == CHOOSE x \in S : \A y \in S : y <= x

SetMin(S) == CHOOSE x \in S : \A y \in S : x <= y

GonePositions == { i \in 1..Len(wsLog) : wsLog[i].outcome = "gone" }

\* C1: a run whose provider yields N fragments and whose sends are all
\* delivered presents exactly chunk 0..N-1 (chunk i carrying fragment i),
\* then one final event with chunkIndex N, and returns 200.
C1_ChunksThenFinal ==
    (pc = "done" /\ streamEnded /\ AllDelivered) =>
        /\ statusCode = 200
        /\ Len(wsLog) = Len(produced) + 1
        /\ \A i \in 1..Len(produced) :
              /\ wsLog[i].messageType = "chunk"
              /\ wsLog[i].isFinal = FALSE
              /\ wsLog[i].chunkIndex = i - 1
              /\ wsLog[i].text = produced[i]
        /\ wsLog[Len(wsLog)].messageType = "final"
        /\ wsLog[Len(wsLog)].isFinal = TRUE
        /\ wsLog[Len(wsLog)].chunkIndex = Len(produced)

C1_Witness ==
    /\ pc = "done" /\ streamEnded /\ AllDelivered
    /\ Len(produced) = 2
    /\ Len(wsLog) = 3

\* C2 (as claimed): in every finished run the chunkIndex values presented to
\* the Delivery Port are strictly increasing from 0 without gaps and exactly
\* one terminal event is presented, last.
C2_PresentedStrictlyIncreasing ==
    pc = "done" =>
        /\ \A i \in 1..Len(wsLog) : wsLog[i].chunkIndex = i - 1
        /\ Cardinality({ i \in 1..Len(wsLog) : wsLog[i].isFinal }) = 1
        /\ wsLog[Len(wsLog)].isFinal

\* C2 (amended): the delivered events carry chunkIndex 0,1,2,... without gaps,
\* at most one of them is terminal and it is the last; the presented attempts
\* start at 0 and each carries the index of the one before it or one more, no
\* chunk is presented after a terminal event, and a finished run has presented
\* a terminal event.
C2_DeliveredOrdered ==
    /\ \A i \in 1..Len(Delivered) :
          /\ Delivered[i].chunkIndex = i - 1
          /\ Delivered[i].isFinal => i = Len(Delivered)
    /\ \A i \in 1..Len(wsLog) :
          /\ i = 1 => wsLog[i].chunkIndex = 0
          /\ i > 1 => wsLog[i].chunkIndex - wsLog[i - 1].chunkIndex \in { 0, 1 }
          /\ i > 1 /\ wsLog[i - 1].isFinal => wsLog[i].isFinal
    /\ pc = "done" => \E i \in 1..Len(wsLog) : wsLog[i].isFinal

C2_Witness ==
    /\ pc = "done"
    /\ Len(Delivered) = 3
    /\ Delivered[3].messageType = "error"
    /\ \E i \in 1..Len(wsLog) : wsLog[i].messageType = "final" /\ wsLog[i].outcome = "failed"
    /\ \E i \in 1..Len(wsLog) : wsLog[i].messageType = "chunk" /\ wsLog[i].outcome = "failed"

\* C7: a send that the Delivery Port answered with gone is never retried: the
\* attempt that follows a gone outcome, if any, is not the same event.
C7_GoneNeverRetried ==
    \A i \in 1..Len(wsLog) :
        (wsLog[i].outcome = "gone" /\ i < Len(wsLog)) => ~SameEvent(wsLog[i], wsLog[i + 1])

C9_ExhaustionContinues ==
    \A k \in 0..MaxFrags :
        (pc = "done" /\ Cardinality(ChunkTransientFailures(k)) = WsTries) =>
            /\ streamEnded
            /\ \E i \in 1..Len(wsLog) : wsLog[i].messageType = "final"
            /\ statusCode # 500

\* C9 (amended): when the transient retries of chunk k are exhausted the run
\* is aborted: no further fragment is consumed, chunk k is not counted or
\* aggregated, no later chunk and no final event is presented, and the run
\* ends with the failed outcome after attempting the error message.
C9_ExhaustionAborts ==
    \A k \in 0..MaxFrags :
        Cardinality(ChunkTransientFailures(k)) >= WsTries =>
            /\ pc \in { "catch", "done" }
            /\ ~streamEnded
            /\ Len(produced) = k + 1
            /\ chunkIndex = k
            /\ aggregated = Concat(SubSeq(produced, 1, k))
            /\ \A i \in 1..Len(wsLog) :
                  /\ wsLog[i].messageType # "final"
                  /\ wsLog[i].messageType = "chunk" => wsLog[i].chunkIndex <= k
            /\ pc = "done" =>
                  /\ statusCode = 500
                  /\ wsLog[Len(wsLog)].messageType = "error"

C9_Witness ==
    /\ pc = "done"
    /\ Cardinality(ChunkTransientFailures(1)) = WsTries
    /\ Len(Delivered) = 2

\* C10: if the send of a chunk fails after its retries, an error message is
\* posted to the client, no later chunk and no final message is posted, and
\* the handler returns 500 (generation_failed).
C10_ChunkFailureAborts ==
    \A k \in 0..MaxFrags :
        (pc = "done" /\ Cardinality(ChunkFailures(k)) >= WsTries) =>
            LET last == SetMax(ChunkFailures(k))
            IN  /\ statusCode = 500
                /\ last < Len(wsLog)
                /\ \A j \in (last + 1)..Len(wsLog) : wsLog[j].messageType = "error"
                /\ \A j \in 1..Len(wsLog) : wsLog[j].messageType # "final"

C10_Witness ==
    /\ pc = "done"
    /\ Cardinality(ChunkFailures(1)) = WsTries
    /\ \E i \in ChunkFailures(1) : wsLog[i].outcome = "gone"
    /\ \E i \in ChunkFailures(1) : wsLog[i].outcome = "failed"

\* Positions of the attempts that presented a message of the given type.
AttemptsOf(type) == { i \in 1..Len(wsLog) : wsLog[i].messageType = type }

DeliveredOf(type) ==
    { i \in 1..Len(Delivered) : Delivered[i].messageType = type }

\* SaveChatHistory was never invoked and both tables are as they were.
NothingPersisted == inv = <<>> /\ tableMessages = {} /\ tableConvs = {}

\* C11: a failure to open the provider stream is retried up to the attempt
\* cap: a run that failed before any fragment called the stream function
\* LlmTries times, returned the failed outcome and presented nothing but the
\* error event.
C11_OpenFailureRetried ==
    (pc = "done" /\ streamFailed /\ produced = <<>>) =>
        /\ opens = LlmTries
        /\ statusCode = CatchStatus
        /\ \A i \in 1..Len(wsLog) : wsLog[i].messageType = "error"

\* C12: when the provider stream fails after k >= 1 fragments, the run
\* returns the failed outcome, presents no final event, persists nothing,
\* attempts one error event (the same event at most WsTries times, after
\* everything else) and leaves the k chunks delivered once each, in order.
C12_MidStreamFailure ==
    (pc = "done" /\ streamFailed /\ Len(produced) >= 1) =>
        LET k    == Len(produced)
            errs == AttemptsOf("error")
        IN  /\ statusCode = 500
            /\ AttemptsOf("final") = {}
            /\ NothingPersisted
            /\ errs # {}
            /\ Cardinality(errs) <= WsTries
            /\ \A i \in errs : \A j \in 1..Len(wsLog) :
                   /\ j \notin errs => j < i
                   /\ j \in errs => SameEvent(wsLog[i], wsLog[j])
            /\ Cardinality(DeliveredOf("error")) <= 1
            /\ Cardinality(DeliveredOf("chunk")) = k
            /\ \A n \in 1..k :
                   /\ Delivered[n].messageType = "chunk"
                   /\ Delivered[n].chunkIndex = n - 1
                   /\ Delivered[n].text = produced[n]

C12_Witness ==
    /\ pc = "done"
    /\ streamFailed
    /\ Len(produced) = 2
    /\ Cardinality(AttemptsOf("error")) = 2
    /\ Cardinality(DeliveredOf("error")) = 1

\* C13 as stated: a turn without user text ends with the failed outcome and
\* an attempted error event, with no provider stream opened and nothing
\* persisted.
C13_InvalidTurnFailsExplicitly ==
    (pc \in { "done", "thrown" } /\ turn.text = <<>>) =>
        /\ statusCode = CatchStatus
        /\ AttemptsOf("error") # {}
        /\ opens = 0
        /\ NothingPersisted

\* C13: a turn without user text makes the handler throw: it returns no
\* outcome, presents no event at all, opens no provider stream and persists
\* nothing; a turn with user text never takes that exit.
C13_InvalidTurnThrows ==
    /\ (pc # "start" /\ turn.text = <<>>) =>
           /\ pc = "thrown"
           /\ statusCode = 0
           /\ wsLog = <<>>
           /\ opens = 0
           /\ NothingPersisted
    /\ pc = "thrown" => turn.text = <<>>

C13_Witness ==
    /\ pc = "thrown"
    /\ turn.text = <<>>
    /\ turn.prepared = PreparedFull

\* C14: after the provider stream has ended normally the run presents one
\* terminal event and then invokes the persistence of the turn; a terminal
\* event that could not be delivered changes neither: the outcome is still
\* the successful one.
C14_TerminalThenPersist ==
    (pc = "done" /\ streamEnded) =>
        /\ AttemptsOf("final") # {}
        /\ statusCode = 200
        /\ inv # <<>>

\* C15: at most one terminal message is delivered and nothing is delivered
\* after it; a run that returned 200 delivered exactly one final and no
\* error, a run that returned 500 delivered no final and at most one error.
C15_OneTerminal ==
    LET finals == DeliveredOf("final")
        errors == DeliveredOf("error")
    IN  /\ Cardinality(finals \cup errors) <= 1
        /\ \A i \in finals \cup errors : i = Len(Delivered)
        /\ (pc = "done" /\ statusCode = 200) =>
               Cardinality(finals) = 1 /\ errors = {}
        /\ (pc = "done" /\ statusCode = 500) =>
               finals = {} /\ Cardinality(errors) <= 1

C15_Witness ==
    /\ pc = "done"
    /\ statusCode = 500
    /\ streamEnded
    /\ Len(Delivered) = 2
    /\ Delivered[1].messageType = "chunk"
    /\ Delivered[2].messageType = "error"

\* C16: the text of the final event is the concatenation of all fragments
\* in the order the provider gave them, and the event carries a usage
\* estimate with an input and an output field and a cost that is not
\* negative.
C16_FinalCarriesTextUsageCost ==
    \A i \in AttemptsOf("final") :
        /\ wsLog[i].text = Concat(produced)
        /\ DOMAIN wsLog[i].usage = { "input", "output" }
        /\ wsLog[i].usage.input \in Nat
        /\ wsLog[i].usage.output \in Nat
        /\ wsLog[i].costEstimateUSD >= 0

C16_Witness ==
    /\ pc = "done"
    /\ statusCode = 200
    /\ Len(produced) = 2
    /\ produced[1] # produced[2]
    /\ Delivered[Len(Delivered)].text = produced[1] \o produced[2]
    /\ Delivered[Len(Delivered)].usage.output = 2
    /\ Delivered[Len(Delivered)].costEstimateUSD > 0

\* Every event presented so far was presented between one and WsTries times,
\* every fragment consumed was presented, a finished run presented its
\* terminal event, and the run made at most WsTries attempts per fragment and
\* per terminal event.
AttemptsBounded ==
    /\ \A i \in 1..Len(wsLog) :
          Cardinality({ j \in 1..Len(wsLog) : SameEvent(wsLog[i], wsLog[j]) }) <= WsTries
    /\ \A k \in 1..Len(produced) :
          (k < Len(produced) \/ pc # "sendChunk" \/ attempt > 0)
          => \E i \in AttemptsOf("chunk") : wsLog[i].chunkIndex = k - 1
    /\ (pc = "done" /\ statusCode = 200) => AttemptsOf("final") # {}
    /\ (pc = "done" /\ statusCode = 500) => AttemptsOf("error") # {}
    /\ Len(wsLog) <= WsTries * (Len(produced) + 2)
    /\ attempt < WsTries

\* C29: every delivery is attempted at least once and at most WsTries times,
\* so a run over a finite stream makes a bounded number of send attempts, and
\* every run ends: with the response 200 or 500, or by throwing on an
\* invalid turn.
C29_AttemptsBoundedAndRunEnds ==
    /\ []AttemptsBounded
    /\ <>(pc = "thrown" \/ (pc = "done" /\ statusCode \in { 200, 500 }))

C29_Witness ==
    /\ pc = "done"
    /\ statusCode = 200
    /\ Len(produced) = 2
    /\ Cardinality({ i \in AttemptsOf("chunk") : wsLog[i].chunkIndex = 0 }) = WsTries
    /\ Cardinality(AttemptsOf("final")) = WsTries
    /\ Len(wsLog) = 2 * WsTries + 1

\* ------------------------------------------- properties: prompt preparation

\* The invocations that returned a prepared prompt.
Accepted == { i \in 1..Len(responses) : responses[i].statusCode = 200 }

\* The history as compaction receives it: normalized, capped, each text
\* sanitized when redaction is on.
HistoryForCompaction ==
    LET clamped == clampHistory(event.history)
    IN  Map([ i \in 1..Len(clamped) |->
                [ role |-> clamped[i].role,
                  text |-> IF prepareENV.redactPII
                             THEN sanitizeText(clamped[i].text, {}).text
                             ELSE clamped[i].text ] ])

\* Number of places of the text where a sample of the category stands.
Occurrences(t, c) ==
    Cardinality({ i \in 1..Len(t) : MatchLenAt(t, i, Categories[c].samples) > 0 })

RECURSIVE SumOf(_)
SumOf(ns) == IF ns = <<>> THEN 0 ELSE Head(ns) + SumOf(Tail(ns))

\* Occurrences of the category in the trimmed user text and in every entry
\* of the normalized and capped history.
OccurrencesInTurn(c) ==
    LET clamped == clampHistory(event.history)
    IN  Occurrences(Trim(event.text), c)
        + SumOf(Map([ i \in 1..Len(clamped) |-> Occurrences(clamped[i].text, c) ]))

IsSuffix(s, t) ==
    Len(s) <= Len(t) /\ SubSeq(t, Len(t) - Len(s) + 1, Len(t)) = s

Occurs(s, t) == \E i \in 1..Len(t) : MatchLenAt(t, i, { s }) > 0

\* C17: the budget of every prepared prompt keeps reserved output, overhead
\* (tokens of the sanitized user text plus tokens of the system instruction)
\* and the reported history use within the maximum of input tokens.
C17_BudgetWithinMaxInput ==
    \A i \in Accepted :
        LET p == responses[i].prepared
        IN  p.budget.reservedOutput
              + (countTokens(p.user) + countTokens(p.system))
              + p.budget.usedByHistory
            <= p.budget.maxInputTokens

\* C18: two invocations on the same event under the same configuration
\* return the same composite, character by character, also when the
\* identifiers they generate differ.
C18_CompositeDeterministic ==
    \A i \in Accepted : \A j \in Accepted :
        responses[i].prepared.composite = responses[j].prepared.composite

C18_Witness ==
    /\ Len(responses) = 2
    /\ Accepted = { 1, 2 }
    /\ responses[1].messageId # responses[2].messageId
    /\ Len(clampHistory(event.history)) = 6
    /\ responses[1].prepared.summary # Null

\* C19: with redaction on, the count of every category in the safety record
\* is the number of occurrences replaced in the user text and in all history
\* entries, and the flag of a category is in the record exactly when that
\* count is positive.
C19_RedactionCountsExact ==
    \A i \in Accepted :
        prepareENV.redactPII =>
            \A c \in DOMAIN Categories :
                LET safety == responses[i].prepared.safety
                    count  == safety.redactions[Categories[c].stat]
                IN  /\ count = OccurrencesInTurn(c)
                    /\ Categories[c].flag \in safety.flags <=> count > 0

\* C20 as stated: with n > 4 entries after normalization and cap the kept
\* list is the last 4 in order and the summary is there and contains one
\* bullet for each of the other n - 4; with n <= 4 all are kept and the
\* summary is null.
C20_SummaryHoldsEveryBullet ==
    \A i \in Accepted :
        LET h == HistoryForCompaction
            n == Len(h)
            p == responses[i].prepared
        IN  IF n > 4
              THEN /\ p.history = SubSeq(h, n - 3, n)
                   /\ p.summary # Null
                   /\ \A k \in 1..(n - 4) : Occurs(Bullet(h[k]), p.summary)
              ELSE p.history = h /\ p.summary = Null

\* C20: with n > 4 the kept list is the last 4 entries in order and the
\* summary is a non-empty string: the bullets of the other n - 4 entries,
\* one per line, when that text is within the token target (60% of the
\* tokens available for history, at least 1) or has at most 80 characters,
\* and otherwise a shorter end of that text; with n <= 4 all entries are
\* kept and the summary is null.
C20_KeptTailAndSummary ==
    \A i \in Accepted :
        LET h      == HistoryForCompaction
            n      == Len(h)
            p      == responses[i].prepared
            target == Max(1, (p.budget.availableForHistory * 6) \div 10)
            all    == Join(Map([ k \in 1..(n - 4) |-> Bullet(h[k]) ]), << "\n" >>)
        IN  IF n > 4
              THEN /\ p.history = SubSeq(h, n - 3, n)
                   /\ p.summary # Null
                   /\ Len(p.summary) >= 1
                   /\ IF countTokens(all) <= target \/ Len(all) <= 80
                        THEN p.summary = all
                        ELSE IsSuffix(p.summary, all)
                             /\ Len(p.summary) < Len(all)
              ELSE p.history = h /\ p.summary = Null

C20_Witness ==
    /\ Accepted # {}
    /\ Len(event.history) > Len(HistoryForCompaction)
    /\ Len(HistoryForCompaction) = 5
    /\ responses[1].prepared.summary # Null
    /\ Len(responses[1].prepared.summary) > 80
    /\ Len(responses[1].prepared.history) = 4

\* C21 as stated: the estimated token count of every summary is at most 60%
\* of the tokens available for history, whatever the budget.
C21_SummaryWithinSixtyPercent ==
    \A i \in Accepted :
        LET p == responses[i].prepared
        IN  p.summary # Null =>
                countTokens(p.summary) * 10 <= p.budget.availableForHistory * 6

\* C21: the shortening ends, and every summary either has an estimated token
\* count within the target (60% of the tokens available for history, rounded
\* down, at least 1) or has at most 80 characters; it is never empty and
\* never longer than the bullet list it was cut from.
C21_SummaryWithinTargetOrFloor ==
    \A i \in Accepted :
        LET p      == responses[i].prepared
            h      == HistoryForCompaction
            all    == Join(Map([ k \in 1..(Len(h) - 4) |-> Bullet(h[k]) ]),
                           << "\n" >>)
            target == Max(1, (p.budget.availableForHistory * 6) \div 10)
        IN  p.summary # Null =>
                /\ countTokens(p.summary) <= target \/ Len(p.summary) <= 80
                /\ 1 <= Len(p.summary)
                /\ Len(p.summary) <= Len(all)

C21_Witness ==
    /\ Accepted # {}
    /\ responses[1].prepared.summary # Null
    /\ responses[1].prepared.budget.availableForHistory = 0
    /\ Len(responses[1].prepared.summary) <= 80
    /\ Len(responses[1].prepared.summary) > 1
    /\ Len(event.history) = 6
    /\ \E k \in 1..2 : Len(event.history[k].text) > 140

\* ceil(characterCount / tokensPerChar)
CeilTokens(s) == (Len(s) + prepareENV.tokenPerChar - 1) \div prepareENV.tokenPerChar

\* The text whose tokens usedByHistory counts first: the kept entries, one
\* "role: text" line each.
KeptText(p) ==
    Join([ i \in 1..Len(p.history) |->
             p.history[i].role \o << ":", " " >> \o p.history[i].text ] \o << >>,
         << "\n" >>)

SummaryText(p) == IF p.summary = Null THEN << >> ELSE p.summary

\* The budget of prepared prompt p is the one the reference formulas give
\* when a text counts tokens(s) tokens.
BudgetByFormulas(p, tokens(_)) ==
    LET reserved == Min(prepareENV.reservedOutputTokens,
                        prepareENV.maxInputTokens \div 2)
    IN  /\ p.budget.maxInputTokens = prepareENV.maxInputTokens
        /\ p.budget.reservedOutput = reserved
        /\ p.budget.availableForHistory =
              Max(0, Min(prepareENV.maxHistoryTokens,
                         prepareENV.maxInputTokens - reserved
                           - (tokens(p.user) + tokens(p.system))))
        /\ p.budget.usedByHistory = tokens(KeptText(p)) + tokens(SummaryText(p))

OneOrCeilTokens(s) == Max(1, CeilTokens(s))

C27_RejectsExactlyBlankText ==
    \A i \in 1..Len(responses) :
        LET blank == \A k \in 1..Len(event.text) : event.text[k] \in { " ", "\n", "\t" }
        IN  IF blank
              THEN /\ responses[i].statusCode = 400
                   /\ responses[i].error = "missing_user_text"
                   /\ "prepared" \notin DOMAIN responses[i]
              ELSE /\ responses[i].statusCode = 200
                   /\ "prepared" \in DOMAIN responses[i]
                   /\ { "composite", "budget", "safety" }
                         \subseteq DOMAIN responses[i].prepared

C27_Witness ==
    /\ Len(responses) = 1
    /\ responses[1].statusCode = 400
    /\ Len(event.text) = 2
    /\ Len(event.history) = 2

\* C33: every event presented to the gateway keeps the wire invariants:
\* isFinal is false on a chunk and true on a final and on an error event;
\* usage (input and output, integers) and costEstimateUSD are on the final
\* event and on no other.
C33_WireInvariants ==
    \A i \in 1..Len(wsLog) :
        LET e == wsLog[i]
        IN  /\ e.messageType \in { "chunk", "final", "error" }
            /\ e.isFinal = (e.messageType # "chunk")
            /\ ("usage" \in DOMAIN e) = (e.messageType = "final")
            /\ ("costEstimateUSD" \in DOMAIN e) = (e.messageType = "final")
            /\ e.messageType = "final" =>
                  /\ e.usage.input \in Nat
                  /\ e.usage.output \in Nat
                  /\ e.costEstimateUSD \in Nat

C33_Witness ==
    /\ pc = "done"
    /\ AttemptsOf("chunk") # {}
    /\ Cardinality(AttemptsOf("final")) = WsTries
    /\ AttemptsOf("error") # {}
    /\ wsLog[Len(wsLog)].outcome = "delivered"

\* Chunk events delivered among the first n attempts.
ChunksDeliveredBefore(n) ==
    Cardinality({ j \in 1..n : wsLog[j].messageType = "chunk"
                                /\ wsLog[j].outcome = "delivered" })

\* The texts of the delivered chunk events, in order.
DeliveredChunkTexts ==
    LET chunks == SelectSeq(wsLog, LAMBDA a : a.messageType = "chunk"
                                               /\ a.outcome = "delivered")
    IN  [ k \in 1..Len(chunks) |-> chunks[k].text ]

\* C35: at every point of a run the chunk counter is the number of chunk
\* events delivered so far and the aggregated text is the concatenation of
\* the texts of exactly those chunks; every final and every error event
\* carries as chunkIndex the number of chunks delivered before it.
C35_CounterIsDeliveredChunks ==
    /\ chunkIndex = ChunksDeliveredBefore(Len(wsLog))
    /\ aggregated = Concat(DeliveredChunkTexts)
    /\ totalChars = Len(aggregated)
    /\ \A i \in AttemptsOf("final") \cup AttemptsOf("error") :
          wsLog[i].chunkIndex = ChunksDeliveredBefore(i - 1)

C35_Witness ==
    /\ pc = "done"
    /\ statusCode = 500
    /\ Len(produced) = 2
    /\ chunkIndex = 1
    /\ aggregated = produced[1]
    /\ Cardinality(ChunkFailures(1)) = WsTries
    /\ \E i \in AttemptsOf("error") : wsLog[i].chunkIndex = 1

\* ------------------------------------- properties: concurrent invocations

\* The events presented under the message id of invocation r.
EventsOf(r) == wsByMessage[runs[r].outMsgId]

\* Chunks delivered among the first n events of a log.
DeliveredChunksBefore(log, n) ==
    Cardinality({ j \in 1..n : log[j].messageType = "chunk"
                                /\ log[j].outcome = "delivered" })

\* The log is one that the invocation with these locals presents when it
\* runs alone: every event carries the number of chunks delivered before it,
\* every chunk the fragment of that position, the final event the whole text,
\* nothing follows a delivered terminal event, and the counter and the
\* aggregated text are those of the delivered chunks.
LogOfRunAlone(log, run) ==
    /\ \A i \in 1..Len(log) :
          /\ log[i].messageId = run.outMsgId
          /\ log[i].chunkIndex = DeliveredChunksBefore(log, i - 1)
          /\ log[i].messageType = "chunk" =>
                /\ log[i].chunkIndex < Len(run.produced)
                /\ log[i].text = run.produced[log[i].chunkIndex + 1]
          /\ log[i].messageType = "final" => log[i].text = Concat(run.produced)
          /\ ( log[i].messageType \in { "final", "error" }
               /\ log[i].outcome = "delivered" ) => i = Len(log)
          /\ Cardinality({ j \in 1..Len(log) : SameEvent(log[i], log[j]) }) <= WsTries
    /\ run.chunkIndex = DeliveredChunksBefore(log, Len(log))
    /\ run.aggregated = Concat(SubSeq(run.produced, 1, run.chunkIndex))
    /\ run.pc = "done" =>
          /\ log # << >>
          /\ log[Len(log)].messageType = (IF run.statusCode = 200 THEN "final" ELSE "error")

\* C28: invocations that run side by side do not interfere: whatever the
\* interleaving of their pulls and sends, the events under the message id of
\* each are those the invocation presents when it runs alone, with its own
\* chunk counter and its own fragments.
C28_RunsDoNotInterfere ==
    \A r \in DOMAIN runs :
        runs[r].pc # "start" =>
            /\ LogOfRunAlone(EventsOf(r), runs[r])
            /\ \A q \in DOMAIN runs :
                  (q # r /\ runs[q].pc # "start") => runs[q].outMsgId # runs[r].outMsgId

C28_Witness ==
    /\ Len(runs) = 2
    /\ runs[1].pc = "sendFinal" /\ runs[1].attempt = 1
    /\ runs[2].pc = "sendChunk" /\ runs[2].attempt = 2
    /\ runs[1].chunkIndex = 1 /\ runs[2].chunkIndex = 0
    /\ runs[1].aggregated = << "H", "e", "l" >>
    /\ runs[2].piece = << "l", "o" >>
    /\ Len(EventsOf(1)) = 2
    /\ Len(EventsOf(2)) = 2

LastConn == connLog'[Len(connLog')]

\* C30: a $connect for a connectionId whose record exists leaves every
\* record of the table as it was, field for field (a DISCONNECTED record stays
\* DISCONNECTED), and answers 200 whenever the store evaluated the put.
C30_ConnectIdempotent ==
    [][ ( /\ Len(connLog') = Len(connLog) + 1
          /\ LastConn.op = "connect"
          /\ \E x \in tableConnections : x.connectionId = LastConn.connectionId )
        => /\ tableConnections' = tableConnections
           /\ LastConn.msg # "connect.error" =>
                 LastConn.statusCode = 200 /\ LastConn.msg = "idempotent_hit" ]_vars

C30_Witness ==
    /\ Len(connLog) = 3
    /\ connLog[1].op = "connect" /\ connLog[1].msg = "connected"
    /\ connLog[2].op = "disconnect" /\ connLog[2].msg = "disconnected"
    /\ connLog[3].op = "connect" /\ connLog[3].msg = "idempotent_hit"
    /\ connLog[3].statusCode = 200
    /\ \A i \in 1..3 : connLog[i].connectionId = "k1"
    /\ \E x \in tableConnections :
          /\ x.connectionId = "k1"
          /\ x.status = "DISCONNECTED"
          /\ x.connectedAt = 0
          /\ x.disconnectedAt = 1
    /\ Cardinality(tableConnections) = 1

\* The record of a connection id before a step, as a set (empty when there
\* is none).
RecordsOf(id) == { x \in tableConnections : x.connectionId = id }

\* C31: a $disconnect that the store evaluates answers 200; when the record
\* of its connectionId exists, the record's status becomes DISCONNECTED (with
\* the time of the disconnection) and nothing else in the table changes; when
\* there is none, NotFound is reported and the table stays as it was.
C31_DisconnectMarksOrReportsNotFound ==
    [][ ( /\ Len(connLog') = Len(connLog) + 1
          /\ LastConn.op = "disconnect"
          /\ LastConn.connectionId # ""
          /\ connENV.table # ""
          /\ LastConn.msg # "disconnect.error" )
        => /\ LastConn.statusCode = 200
           /\ IF RecordsOf(LastConn.connectionId) # {}
                THEN /\ LastConn.emf.Disconnected = 1
                     /\ LastConn.emf.NotFound = 0
                     /\ Cardinality(tableConnections') = Cardinality(tableConnections)
                     /\ \A x \in tableConnections :
                           IF x.connectionId = LastConn.connectionId
                             THEN \E y \in tableConnections' :
                                    /\ y.status = "DISCONNECTED"
                                    /\ y.disconnectedAt = clock
                                    /\ \A a \in DOMAIN x \ { "status", "disconnectedAt", "updatedAt" } :
                                          a \in DOMAIN y /\ y[a] = x[a]
                             ELSE x \in tableConnections'
                ELSE /\ LastConn.emf.NotFound = 1
                     /\ LastConn.emf.Disconnected = 0
                     /\ tableConnections' = tableConnections ]_vars

C31_Witness ==
    /\ Len(connLog) = 3
    /\ connLog[1].op = "disconnect" /\ connLog[1].connectionId = "k1"
    /\ connLog[1].statusCode = 200 /\ connLog[1].emf.NotFound = 1
    /\ connLog[2].op = "connect" /\ connLog[2].connectionId = "k2"
    /\ connLog[2].msg = "connected"
    /\ connLog[3].op = "disconnect" /\ connLog[3].connectionId = "k2"
    /\ connLog[3].statusCode = 200 /\ connLog[3].emf.Disconnected = 1
    /\ \A x \in tableConnections : x.status = "DISCONNECTED" /\ x.connectionId = "k2"
    /\ Cardinality(tableConnections) = 1

\* Positions of the invocations for a connection id that the store evaluated
\* and answered with 200.
Handled(op, id) ==
    { i \in 1..Len(connLog) : /\ connLog[i].op = op
                               /\ connLog[i].connectionId = id
                               /\ connLog[i].statusCode = 200 }

\* C39: a $disconnect handled before the first $connect of its connection
\* changes nothing, and the later $connect records the connection as
\* CONNECTED: a connection has a record exactly when a $connect was handled
\* for it, and its status is DISCONNECTED exactly when a $disconnect was
\* handled after the first handled $connect, CONNECTED otherwise.
C39_DisconnectBeforeConnectLeavesConnected ==
    \A id \in ConnectionIds \ { "" } :
        LET connects == Handled("connect", id)
            disconnects == Handled("disconnect", id)
        IN  IF connects = {}
              THEN \A x \in tableConnections : x.pk # << "CONN", id >>
              ELSE /\ Cardinality({ x \in tableConnections : x.pk = << "CONN", id >> }) = 1
                   /\ \A x \in tableConnections :
                         x.pk = << "CONN", id >> =>
                           x.status = IF \E j \in disconnects : j > SetMin(connects)
                                        THEN "DISCONNECTED" ELSE "CONNECTED"

C39_Witness ==
    /\ Len(connLog) = 2
    /\ connLog[1].op = "disconnect" /\ connLog[1].connectionId = "k1"
    /\ connLog[1].statusCode = 200
    /\ connLog[2].op = "connect" /\ connLog[2].connectionId = "k1"
    /\ connLog[2].statusCode = 200
    /\ \E x \in tableConnections : x.connectionId = "k1" /\ x.status = "CONNECTED"

\* ----------------------------------------------------- properties: ledger

AllInvocationsDone == \A v \in DOMAIN inv : inv[v].pc = "done"

\* The conversation item of a message's conversation.
AggregateOf(m) == ConvItem(ConvKey(m))

RoleCounter(m) == IF m.role = "user" THEN "userMessages" ELSE "assistantMessages"

SameTriple(a, b) ==
    /\ a.correlationId = b.correlationId
    /\ a.messageId = b.messageId
    /\ a.sequence = b.sequence

\* Positions of the finished saveOneMessage calls of invocation v.
CallsOf(v) == { i \in 1..Len(callLog) : callLog[i].inv = v }

\* The store holds one record and counts one message for the message of the
\* two calls in callLog.
OneRecordCountedOnce(m) ==
    /\ Cardinality(tableMessages) = 1
    /\ IfNotExists(AggregateOf(m), "messages", 0) = 1
    /\ IfNotExists(AggregateOf(m), RoleCounter(m), 0) = 1

\* C3: persisting the same message twice (no store failure) leaves exactly one
\* message record and each aggregate counter incremented exactly once.
C3_PersistTwiceCountsOnce ==
    ( /\ AllInvocationsDone
      /\ Len(callLog) = 2
      /\ callLog[1].message = callLog[2].message
      /\ \A i \in 1..2 : callLog[i].result = "ok" /\ callLog[i].updated )
    => OneRecordCountedOnce(callLog[1].message)

C5_ResultTellsCreatedFromDuplicate ==
    \A v \in DOMAIN inv :
        inv[v].pc = "done" =>
            /\ inv[v].saved =
                  Cardinality({ i \in CallsOf(v) : callLog[i].result = "ok" /\ callLog[i].created })
            /\ inv[v].idem =
                  Cardinality({ i \in CallsOf(v) : callLog[i].result = "ok" /\ ~callLog[i].created })

\* C6: two concurrent persist calls for the same message (no store failure),
\* in any interleaving: exactly one conditional put succeeds and the final
\* store equals the one a single persist call leaves.
C6_RaceLeavesSinglePersistState ==
    ( /\ AllInvocationsDone
      /\ Len(callLog) = 2
      /\ callLog[1].inv # callLog[2].inv
      /\ callLog[1].message = callLog[2].message
      /\ \A i \in 1..2 : callLog[i].result = "ok" /\ callLog[i].updated )
    => /\ callLog[1].created # callLog[2].created
       /\ OneRecordCountedOnce(callLog[1].message)
       /\ IfNotExists(AggregateOf(callLog[1].message), "lastSequence", -1) = -1

\* Sequences of the message records stored for the conversation of m.
StoredSequences(m) == { x.sequence : x \in { y \in tableMessages : y.pk = PkOf(m) } }

\* C22: after a successful create of a message with sequence s whose aggregate
\* update went through, the aggregate's lastSequence is at least s and is the
\* largest sequence stored for the conversation once every call has updated.
C22_LastSequenceIsMaxStored ==
    \A i \in 1..Len(callLog) :
        LET m == callLog[i].message
            last == IfNotExists(AggregateOf(m), "lastSequence", -1)
        IN  (callLog[i].result = "ok" /\ callLog[i].created /\ callLog[i].updated)
            => /\ last >= m.sequence
               /\ ( /\ AllInvocationsDone
                    /\ \A j \in 1..Len(callLog) :
                          callLog[j].result = "ok" /\ callLog[j].updated )
                  => last = SetMax(StoredSequences(m))

\* The record stored under the key of message m.
StoredRecords(m) ==
    { x \in tableMessages : x.pk = PkOf(m) /\ x.sk = SkOf(m) }

\* C23: when the aggregate update fails after the record was created, the
\* call still reports success for the message (it is counted as saved and the
\* response is ok) and the created record stays in the store.
C23_AggregateFailureIsNotFatal ==
    /\ \A i \in 1..Len(callLog) :
          (callLog[i].created /\ ~callLog[i].updated)
          => /\ callLog[i].result = "ok"
             /\ Cardinality(StoredRecords(callLog[i].message)) = 1
    /\ \A v \in DOMAIN inv :
          inv[v].pc = "done"
          => /\ inv[v].response.ok
             /\ inv[v].saved >=
                   Cardinality({ i \in CallsOf(v) :
                                   callLog[i].created /\ ~callLog[i].updated })

C23_Witness ==
    /\ AllInvocationsDone
    /\ Len(callLog) = 1
    /\ callLog[1].created /\ ~callLog[1].updated
    /\ inv[1].saved = 1
    /\ inv[1].response.ok
    /\ tableConvs = {}
    /\ Cardinality(tableMessages) = 1

\* C24: a primary write that fails for another reason than "already exists"
\* is surfaced to the caller: the call that met it does not answer success.
C24_WriteFailureSurfaced ==
    \A v \in DOMAIN inv :
        ( /\ inv[v].pc = "done"
          /\ \E i \in CallsOf(v) : callLog[i].result = "error" )
        => ~inv[v].response.ok /\ inv[v].response.statusCode # 200

\* C25: every item of a batch is processed whatever happens to the others,
\* and the counts of the result tell the newly stored from the duplicates and
\* from the failed, the three summing to the size of the batch.
C25_BatchCountsSumToSize ==
    \A v \in DOMAIN inv :
        inv[v].pc = "done" =>
            LET stored == { i \in CallsOf(v) : callLog[i].result = "ok" /\ callLog[i].created }
                dups   == { i \in CallsOf(v) : callLog[i].result = "ok" /\ ~callLog[i].created }
                failed == { i \in CallsOf(v) : callLog[i].result \in { "error", "invalid" } }
            IN  /\ Cardinality(CallsOf(v)) = inv[v].count
                /\ inv[v].response.saved = Cardinality(stored)
                /\ inv[v].idem = Cardinality(dups)
                /\ inv[v].count - inv[v].response.saved - inv[v].idem = Cardinality(failed)

\* C26: a stored message record never changes: whatever a later persist
\* carries (the same message again, or other text, role or time under the
\* same key), every record of the store is still there, field for field, and
\* is the only record under its key.
C26_StoredRecordImmutable ==
    [][ \A x \in tableMessages :
            /\ x \in tableMessages'
            /\ \A y \in tableMessages' : (y.pk = x.pk /\ y.sk = x.sk) => y = x ]_vars

C26_Witness ==
    /\ AllInvocationsDone
    /\ Len(callLog) = 2
    /\ callLog[1].result = "ok" /\ callLog[1].created
    /\ callLog[2].result = "ok" /\ ~callLog[2].created
    /\ SameTriple(callLog[1].message, callLog[2].message)
    /\ callLog[1].message.role = "user"
    /\ callLog[2].message.role = "assistant"
    /\ \A x \in tableMessages : x.role = "user"
    /\ tableMessages # {}

ZeroFragmentRun ==
    pc = "done" /\ streamEnded /\ produced = << >> /\ AllDelivered

\* C37: a run whose provider yields no fragment (its sends delivered) returns
\* 200 and presents one event only, the final one, with chunkIndex 0 and an
\* empty text; handed to SaveChatHistory, that final message is rejected as
\* invalid and no record is stored for it.
C37_EmptyFinalIsNotPersisted ==
    ZeroFragmentRun =>
        /\ statusCode = 200
        /\ Len(wsLog) = 1
        /\ wsLog[1].messageType = "final"
        /\ wsLog[1].isFinal = TRUE
        /\ wsLog[1].chunkIndex = 0
        /\ wsLog[1].text = << >>
        /\ tableMessages = {}
        /\ tableConvs = {}
        /\ \A i \in 1..Len(callLog) :
              /\ callLog[i].input.text = ""
              /\ callLog[i].result = "invalid"
        /\ \A v \in DOMAIN inv :
              inv[v].pc = "done" =>
                  /\ Len(callLog) = 1
                  /\ inv[v].saved = 0
                  /\ inv[v].errors = 1

C37_Witness ==
    /\ ZeroFragmentRun
    /\ Len(inv) = 1
    /\ inv[1].pc = "done"
    /\ Len(callLog) = 1
    /\ callLog[1].result = "invalid"
    /\ callLog[1].input.role = "assistant"
    /\ tableMessages = {}

LexLess(a, b) ==
    \E i \in 1..Len(b) :
        /\ \A j \in 1..(i - 1) : j <= Len(a) /\ a[j] = b[j]
        /\ (i > Len(a) \/ a[i] < b[i])

\* C34: within one conversation the sort key orders messages by sequence: of
\* two messages with sequences 0 <= s1 < s2 the sk of the first is
\* lexicographically smaller than the sk of the second, whatever their
\* messageIds.
C34_SortKeyOrdersBySequence ==
    sortKeys # << >> =>
        \A a \in 1..2 : \A b \in 1..2 :
            ( /\ keyPair[a].correlationId = keyPair[b].correlationId
              /\ 0 <= keyPair[a].sequence
              /\ keyPair[a].sequence < keyPair[b].sequence )
            => LexLess(sortKeys[a], sortKeys[b])

C34_Witness ==
    /\ sortKeys # << >>
    /\ keyPair[1].sequence = 9
    /\ keyPair[2].sequence = 10
    /\ keyPair[1].messageId = << 102, 102 >>
    /\ keyPair[2].messageId = << 45 >>
    /\ Len(sortKeys[1]) = 23
    /\ LexLess(sortKeys[1], sortKeys[2])
    /\ ~LexLess(keyPair[1].messageId, keyPair[2].messageId)

====
